---- MODULE Spec2Model ----
(***************************************************************************)
(* Contact-detail enrichment service (src/contact_server.py): URL and      *)
(* social-link validation, email extraction, the website crawl of one      *)
(* business, and the /enrich batch handler with its pool of worker         *)
(* threads.  Listing scraper (src/main.py): text-line classification, the  *)
(* record builder, the validity gate and deduplication.                    *)
(*                                                                         *)
(* Python strings are modelled as tuples of one-character strings, so      *)
(* that length, prefix, substring and regular-expression tests are         *)
(* computed the way the code computes them.                                *)
(***************************************************************************)
EXTENDS Integers, Sequences, FiniteSets, TLC

VARIABLES
    pc,                   \* position of the operation being run
    url,                  \* is_valid_social_url: the candidate URL
    valid,                \* is_valid_social_url: its verdict
    cleaned,              \* clean_social_url: the normalised URL
    links,                \* extract_social_media: the <a href> links of the page
    social_data,          \* extract_social_media: platform -> URL
    social_src,           \* history: platform -> index of the link it was taken from
    business,             \* extract_contact_details: the business passed in
    site,                 \* what the business's website answers to each fetch
    outcome,              \* extract_contact_details: raised / returned value / fetches
    businesses,           \* /enrich: the list of the request body
    sites,                \* /enrich: the website behind each element of the list
    futures,              \* /enrich: the state of each submitted future
    enriched_businesses,  \* /enrich: the list being collected
    response,             \* /enrich: the HTTP response, once sent
    page_text,            \* extract_emails: the text searched
    valid_emails,         \* extract_emails: the list returned
    line,                 \* classify_text_line: the text line
    business_name,        \* classify_text_line: the name of the business
    classification,       \* classify_text_line: the label returned
    unique_elements,      \* advanced_extract_business_data: the listing elements found
    built,                \* what advanced_extract_single_business did with each element so far
    adv_businesses,       \* advanced_extract_business_data: its list businesses
    maps_page,            \* scrape_businesses: the results page, its cards and detail panels
    businesses_data,      \* scrape_businesses: the listings read from the page
    processed,            \* scrape_businesses: how many of those the loop has been through
    final_businesses,     \* scrape_businesses: the records that passed the quality filter
    unique_businesses,    \* scrape_businesses: the records after deduplication
    scrape_result,        \* scrape_businesses: the dictionary returned
    dedup_input,          \* deduplicate_businesses: the list it is given
    dedup_output,         \* deduplicate_businesses: the list it returns
    dedup_again,          \* deduplicate_businesses: what it returns for its own result
    request,              \* the JSON body of the request an endpoint is serving
    reply,                \* the response of that endpoint
    contact_answer,       \* enrich_with_contact_details: what the contact server did with the post
    results,              \* scrape_batch_endpoint: its list results
    session,              \* ContactDetailsExtractor.session: the hosts whose cookie the shared session holds
    scroll_attempts,      \* settings["scroll_attempts"]
    scroll_attempt,       \* scrape_businesses: the turns of the scroll loop begun
    current_count,        \* scrape_businesses: the listing count of the last turn
    previous_count,       \* scrape_businesses: the count kept from a turn that saw growth
    no_change_count,      \* scrape_businesses: the turns in a row without growth
    main_process,         \* launcher: the process of main.py
    contact_process,      \* launcher: the process of contact_server.py
    main_probe,           \* launcher: the health probe of the main server at start
    contact_probe,        \* launcher: the health probe of the contact server at start
    reported,             \* launcher: it has printed that both servers started
    main_healthy,         \* launcher: the last periodic check of the main server
    contact_healthy       \* launcher: the last periodic check of the contact server

urlVars == <<url, valid, cleaned>>

socialVars == <<links, social_data, social_src>>

enrichVars == <<business, site, outcome>>

batchVars == <<businesses, sites, futures, enriched_businesses, response>>

emailVars == <<page_text, valid_emails>>

classifyVars == <<line, business_name, classification>>

buildVars == <<unique_elements, built, adv_businesses>>

scrapeVars ==
    <<maps_page, businesses_data, processed, final_businesses, unique_businesses, scrape_result>>

dedupVars == <<dedup_input, dedup_output, dedup_again>>

endpointVars == <<request, reply, contact_answer, results>>

sessionVars == <<session>>

scrollVars == <<scroll_attempts, scroll_attempt, current_count, previous_count, no_change_count>>

launcherVars ==
    <<main_process, contact_process, main_probe, contact_probe, reported, main_healthy,
      contact_healthy>>

\* the variables of the operations modelled after scrape_businesses
serviceVars == <<dedupVars, endpointVars, sessionVars, scrollVars, launcherVars>>

scraperVars == <<classifyVars, buildVars, scrapeVars, serviceVars>>

vars == <<pc, urlVars, socialVars, enrichVars, batchVars, emailVars, scraperVars>>

\* the variables of an operation that is not being run
UrlIdle == url = <<>> /\ valid = FALSE /\ cleaned = <<>>

SocialIdle == links = <<>> /\ social_data = <<>> /\ social_src = <<>>

EnrichIdle == business = <<>> /\ site = <<>> /\ outcome = <<>>

BatchIdle ==
    /\ businesses = <<>>
    /\ sites = <<>>
    /\ futures = <<>>
    /\ enriched_businesses = <<>>
    /\ response = <<>>

EmailIdle == page_text = <<>> /\ valid_emails = <<>>

ClassifyIdle == line = <<>> /\ business_name = <<>> /\ classification = ""

BuildIdle == unique_elements = <<>> /\ built = <<>> /\ adv_businesses = <<>>

ScrapeIdle ==
    /\ maps_page = <<>> /\ businesses_data = <<>> /\ processed = 0
    /\ final_businesses = <<>> /\ unique_businesses = <<>> /\ scrape_result = <<>>

DedupIdle == dedup_input = <<>> /\ dedup_output = <<>> /\ dedup_again = <<>>

EndpointIdle == request = <<>> /\ reply = <<>> /\ contact_answer = <<>> /\ results = <<>>

SessionIdle == session = {}

ScrollIdle == scroll_attempts = 0 /\ scroll_attempt = 0 /\ current_count = 0 /\ previous_count = 0 /\ no_change_count = 0

LauncherIdle ==
    /\ main_process = "none" /\ contact_process = "none"
    /\ main_probe = "none" /\ contact_probe = "none"
    /\ reported = FALSE
    /\ main_healthy = "none" /\ contact_healthy = "none"

ServiceIdle == DedupIdle /\ EndpointIdle /\ SessionIdle /\ ScrollIdle /\ LauncherIdle

ScraperIdle == ClassifyIdle /\ BuildIdle /\ ScrapeIdle /\ ServiceIdle

----------------------------------------------------------------------------
(* Characters and str methods                                              *)

LowerLetters ==
    {"a","b","c","d","e","f","g","h","i","j","k","l","m",
     "n","o","p","q","r","s","t","u","v","w","x","y","z"}

UpperLetters ==
    {"A","B","C","D","E","F","G","H","I","J","K","L","M",
     "N","O","P","Q","R","S","T","U","V","W","X","Y","Z"}

Digits == {"0","1","2","3","4","5","6","7","8","9"}

\* what str.strip() removes and what \s matches
Whitespace == {" ", "\t", "\n", "\r", "\f"}

LowerChar(c) ==
    CASE c = "A" -> "a" []
    c = "B" -> "b" []
    c = "C" -> "c" []
    c = "D" -> "d" []
    c = "E" -> "e" []
    c = "F" -> "f" []
    c = "G" -> "g" []
    c = "H" -> "h" []
    c = "I" -> "i" []
    c = "J" -> "j" []
    c = "K" -> "k" []
    c = "L" -> "l" []
    c = "M" -> "m" []
    c = "N" -> "n" []
    c = "O" -> "o" []
    c = "P" -> "p" []
    c = "Q" -> "q" []
    c = "R" -> "r" []
    c = "S" -> "s" []
    c = "T" -> "t" []
    c = "U" -> "u" []
    c = "V" -> "v" []
    c = "W" -> "w" []
    c = "X" -> "x" []
    c = "Y" -> "y" []
    c = "Z" -> "z"
      [] OTHER -> c

\* str.lower(); SubSeq makes the result a tuple that is built once
Lower(s) == SubSeq([i \in 1..Len(s) |-> LowerChar(s[i])], 1, Len(s))

SetMin(S) == CHOOSE x \in S : \A y \in S : x <= y

SetMax(S) == CHOOSE x \in S : \A y \in S : x >= y

\* s[i-1:].startswith(p), with i counted from 1
StartsWithAt(s, p, i) ==
    /\ i >= 1
    /\ i + Len(p) - 1 <= Len(s)
    /\ \A k \in 1..Len(p) : s[i + k - 1] = p[k]

\* s.startswith(p)
StartsWith(s, p) == StartsWithAt(s, p, 1)

\* p in s
Contains(s, p) == \E i \in 1..(Len(s) + 1) : StartsWithAt(s, p, i)

\* s.find(c, from) for a set of characters: the first index >= from holding
\* one of them, Len(s) + 1 when there is none
FindAny(s, cs, from) ==
    LET hits == {i \in from..Len(s) : s[i] \in cs}
    IN  IF hits = {} THEN Len(s) + 1 ELSE SetMin(hits)

\* s.strip()
Strip(s) ==
    LET keep == {i \in 1..Len(s) : s[i] \notin Whitespace}
    IN  IF keep = {} THEN <<>> ELSE SubSeq(s, SetMin(keep), SetMax(keep))

\* s.rstrip(c)
RStrip(s, c) ==
    LET keep == {i \in 1..Len(s) : s[i] # c}
    IN  IF keep = {} THEN <<>> ELSE SubSeq(s, 1, SetMax(keep))

----------------------------------------------------------------------------
(* urllib.parse.urlparse, as far as is_valid_url and urljoin use it        *)

SchemeChars == LowerLetters \cup UpperLetters \cup Digits \cup {"+", "-", "."}

\* index of the ':' ending the scheme, 0 when the URL has no scheme
SchemeEnd(u) ==
    LET i == FindAny(u, {":"}, 1)
    IN  IF /\ i > 1
           /\ i <= Len(u)
           /\ u[1] \in LowerLetters \cup UpperLetters
           /\ \A k \in 1..(i - 1) : u[k] \in SchemeChars
        THEN i
        ELSE 0

\* index one past the network location, 0 when the URL has none
NetlocEnd(u) ==
    LET r == SchemeEnd(u) + 1
    IN  IF StartsWithAt(u, <<"/","/">>, r) THEN FindAny(u, {"/", "?", "#"}, r + 2) ELSE 0

\* urlparse(u).netloc
Netloc(u) ==
    IF NetlocEnd(u) = 0 THEN <<>> ELSE SubSeq(u, SchemeEnd(u) + 3, NetlocEnd(u) - 1)

\* urlparse raises ValueError("Invalid IPv6 URL") on an unbalanced bracket
UrlparseRaises(u) ==
    LET n == Netloc(u)
    IN  (\E i \in 1..Len(n) : n[i] = "[") # (\E i \in 1..Len(n) : n[i] = "]")

\* urljoin(base_url, path) for a root-relative path
UrlJoinRoot(base_url, path) ==
    IF NetlocEnd(base_url) = 0 THEN path
    ELSE SubSeq(base_url, 1, NetlocEnd(base_url) - 1) \o path

----------------------------------------------------------------------------
(* ContactDetailsExtractor.is_valid_social_url                             *)

GenericPlatforms == {<<"f","a","c","e","b","o","o","k">>, <<"i","n","s","t","a","g","r","a","m">>, <<"t","w","i","t","t","e","r">>, <<"l","i","n","k","e","d","i","n">>, <<"y","o","u","t","u","b","e">>}

\* the indices just past a match of
\*   https?://(www\.)?(facebook|instagram|twitter|linkedin|youtube)\.com
GenericHeadEnds(u) ==
    LET scheme == IF StartsWith(u, <<"h","t","t","p","s",":","/","/">>) THEN {9}
                  ELSE IF StartsWith(u, <<"h","t","t","p",":","/","/">>) THEN {8} ELSE {}
        www    == scheme \cup {p + 4 : p \in {q \in scheme : StartsWithAt(u, <<"w","w","w",".">>, q)}}
    IN  UNION {{p + Len(n) + 4 :
                   n \in {m \in GenericPlatforms : StartsWithAt(u, m \o <<".","c","o","m">>, p)}} :
               p \in www}

\* the tails /?$, /$ and /[\s]*$ ($ also matches before a final newline)
GenericEndTail(u, p) ==
    \/ p = Len(u) + 1
    \/ p = Len(u) /\ u[p] = "\n"
    \/ /\ p <= Len(u)
       /\ u[p] = "/"
       /\ \A k \in (p + 1)..Len(u) : u[k] \in Whitespace

\* the literal tails of the pattern table; re.match needs them only as a prefix
GenericTails ==
    {<<"/","s","h","a","r","e","/">>, <<"/","p","r","o","f","i","l","e",".","p","h","p","?","i","d","=">>, <<"/","p","a","g","e","s","/">>, <<"/","g","r","o","u","p","s","/">>, <<"/","e","v","e","n","t","s","/">>, <<"/","h","e","l","p","/">>,
     <<"/","a","b","o","u","t","/">>, <<"/","p","r","i","v","a","c","y","/">>, <<"/","t","e","r","m","s","/">>, <<"/","c","o","n","t","a","c","t","/">>, <<"/","s","u","p","p","o","r","t","/">>, <<"/","l","o","g","i","n">>,
     <<"/","s","i","g","n","u","p">>, <<"/","f","o","r","g","o","t","-","p","a","s","s","w","o","r","d">>, <<"/","s","e","c","u","r","i","t","y">>, <<"/","s","e","t","t","i","n","g","s">>, <<"/","a","d","s","/">>,
     <<"/","b","u","s","i","n","e","s","s","/">>, <<"/","d","e","v","e","l","o","p","e","r","s","/">>, <<"/","c","a","r","e","e","r","s","/">>, <<"/","p","r","e","s","s","/">>, <<"/","i","n","v","e","s","t","o","r","s","/">>,
     <<"/","l","e","g","a","l","/">>, <<"/","c","o","o","k","i","e","s","/">>, <<"/","a","c","c","e","s","s","i","b","i","l","i","t","y","/">>, <<"/","c","o","m","m","u","n","i","t","y","/">>, <<"/","p","a","r","t","n","e","r","s","/">>,
     <<"/","c","r","e","a","t","o","r","s","/">>, <<"/","g","a","m","i","n","g","/">>, <<"/","w","a","t","c","h","/">>, <<"/","v","i","d","e","o","s","/">>, <<"/","l","i","v","e","/">>, <<"/","t","r","e","n","d","i","n","g","/">>,
     <<"/","s","u","b","s","c","r","i","p","t","i","o","n","s","/">>, <<"/","p","l","a","y","l","i","s","t","/">>, <<"/","c","h","a","n","n","e","l","/">>, <<"/","u","s","e","r","/">>, <<"/","@">>}
    \cup {<<"/", c, "/">> : c \in LowerLetters \cup Digits}

\* any(re.match(pattern, url) for pattern in generic_patterns)
MatchesGenericPattern(u) ==
    \E p \in GenericHeadEnds(u) :
        \/ GenericEndTail(u, p)
        \/ \E t \in GenericTails : StartsWithAt(u, t, p)

business_indicators ==
    {<<"c","o","m","p","a","n","y">>, <<"b","u","s","i","n","e","s","s">>, <<"o","f","f","i","c","i","a","l">>, <<"p","a","g","e">>, <<"p","r","o","f","i","l","e">>, <<"r","e","n","t">>, <<"c","a","r">>,
     <<"t","o","u","r","s">>, <<"t","r","a","v","e","l">>, <<"s","e","r","v","i","c","e">>, <<"a","g","e","n","c","y">>, <<"r","e","n","t","a","l">>, <<"t","r","a","n","s","p","o","r","t">>, <<"c","a","b">>,
     <<"t","a","x","i">>, <<"d","r","i","v","e">>, <<"a","u","t","o">>}

has_business_indicator(u) == \E ind \in business_indicators : Contains(Lower(u), ind)

MinSocialUrlLen == 30

StrictSocialUrlLen == 40

\* a variant in which a business indicator waives the length floor
is_valid_social_url_IndicatorWaivesFloor(u, platform) ==
    IF u = <<>> \/ ~StartsWith(u, <<"h","t","t","p">>) THEN FALSE
    ELSE IF MatchesGenericPattern(u) THEN FALSE
    ELSE IF has_business_indicator(u) THEN TRUE
    ELSE Len(u) >= StrictSocialUrlLen

\* a variant that skips the generic-pattern table
is_valid_social_url_NoPatternTable(u, platform) ==
    IF u = <<>> THEN FALSE
    ELSE IF Len(u) < MinSocialUrlLen THEN FALSE
    ELSE IF Len(u) < StrictSocialUrlLen /\ ~has_business_indicator(u) THEN FALSE
    ELSE TRUE

is_valid_social_url(u, platform) ==
    IF u = <<>> \/ ~StartsWith(u, <<"h","t","t","p">>) THEN FALSE
    ELSE IF MatchesGenericPattern(u) THEN FALSE
    ELSE IF Len(u) < MinSocialUrlLen THEN FALSE
    ELSE IF Len(u) < StrictSocialUrlLen /\ ~has_business_indicator(u) THEN FALSE
    ELSE TRUE

(* ContactDetailsExtractor.clean_social_url                                *)
clean_social_url(u, base_url) ==
    IF u = <<>> THEN <<>>
    ELSE Strip(IF StartsWith(u, <<"/","/">>) THEN <<"h","t","t","p","s",":">> \o u
               ELSE IF StartsWith(u, <<"/">>) THEN UrlJoinRoot(base_url, u)
               ELSE IF ~StartsWith(u, <<"h","t","t","p">>) THEN <<"h","t","t","p","s",":","/","/">> \o u
               ELSE u)

----------------------------------------------------------------------------
(* Inputs of the URL validation check                                      *)

MaxPad == 26

\* k filler characters: a path segment with no business indicator in it
Pad(k) == [i \in 1..k |-> "z"]

UrlHeads ==
    {<<"h","t","t","p","s",":","/","/","w","w","w",".","f","a","c","e","b","o","o","k",".","c","o","m","/">>, <<"h","t","t","p","s",":","/","/","f","b",".","c","o","m","/">>, <<"h","t","t","p",":","/","/","i","n","s","t","a","g","r","a","m",".","c","o","m","/">>,
     <<"h","t","t","p","s",":","/","/","t","w","i","t","t","e","r",".","c","o","m","/">>, <<"h","t","t","p","s",":","/","/","w","w","w",".","y","o","u","t","u","b","e",".","c","o","m","/","@">>, <<"h","t","t","p","s",":","/","/","w","a",".","m","e","/">>,
     <<"h","t","t","p","s",":","/","/","f","a","c","e","b","o","o","k",".","c","o","m","/","l","o","g","i","n">>, <<"/","/","w","w","w",".","f","a","c","e","b","o","o","k",".","c","o","m","/">>, <<"h","t","t","p","s",":","/","/","w","w","w",".","l","i","n","k","e","d","i","n",".","c","o","m","/","i","n","/">>}

UrlSuffixes == {<<>>, <<"r","e","n","t">>, <<"/">>, <<" ">>}

ExampleAccepted == <<"h","t","t","p","s",":","/","/","w","w","w",".","f","a","c","e","b","o","o","k",".","c","o","m","/","a","u","t","o","d","r","i","v","e","r","e","n","t","a","l","s","o","f","f","i","c","i","a","l">>

ExampleRejected == <<"h","t","t","p","s",":","/","/","w","w","w",".","f","a","c","e","b","o","o","k",".","c","o","m","/">>

ShortWithIndicator == <<"h","t","t","p","s",":","/","/","f","b",".","c","o","m","/","c","i","t","y","r","e","n","t","a","l","s">>

SocialUrlPool ==
    {h \o Pad(k) \o s : h \in UrlHeads, k \in 0..MaxPad, s \in UrlSuffixes}
    \cup {ExampleAccepted, ExampleRejected, ShortWithIndicator,
          <<"H","T","T","P","S",":","/","/","w","w","w",".","f","a","c","e","b","o","o","k",".","c","o","m","/","A","c","m","e","R","e","n","t","a","l","s","O","f","f","i","c","i","a","l">>, <<>>,
          <<"h","t","t","p","s",":","/","/","w","w","w",".","f","a","c","e","b","o","o","k",".","c","o","m"," "," "," "," "," "," "," "," "," "," "," "," "," "," "," "," ">>, <<"h","t","t","p","s",":","/","/","w","w","w",".","i","n","s","t","a","g","r","a","m",".","c","o","m","\n">>}

UrlInit ==
    /\ pc = "url_start"
    /\ url \in SocialUrlPool
    /\ valid = FALSE
    /\ cleaned = <<>>
    /\ SocialIdle
    /\ EnrichIdle
    /\ BatchIdle
    /\ EmailIdle
    /\ ScraperIdle

\* is_valid_social_url(url, platform), then clean_social_url(url, base_url) as
\* extract_social_media calls them for one link
ValidateSocialUrl ==
    /\ pc = "url_start"
    /\ valid' = is_valid_social_url(url, "facebook")
    /\ cleaned' = IF valid' THEN clean_social_url(url, <<"h","t","t","p","s",":","/","/","a","c","m","e",".","p","k">>) ELSE <<>>
    /\ pc' = "url_done"
    /\ UNCHANGED <<url, socialVars, enrichVars, batchVars, emailVars, scraperVars>>

UrlNext == ValidateSocialUrl

SpecUrl == UrlInit /\ [][UrlNext]_vars

----------------------------------------------------------------------------
(* ContactDetailsExtractor.extract_social_media                            *)

Platforms == {"facebook", "instagram", "twitter", "linkedin", "youtube", "whatsapp"}

\* the order of the if / elif chain
PlatformOrder == <<"facebook", "instagram", "twitter", "linkedin", "youtube", "whatsapp">>

\* the substrings the chain tests the lowercased href for
PlatformTokens ==
    [facebook  |-> {<<"f","a","c","e","b","o","o","k",".","c","o","m">>, <<"f","b",".","c","o","m">>},
     instagram |-> {<<"i","n","s","t","a","g","r","a","m",".","c","o","m">>, <<"i","g",".","c","o","m">>},
     twitter   |-> {<<"t","w","i","t","t","e","r",".","c","o","m">>, <<"x",".","c","o","m">>},
     linkedin  |-> {<<"l","i","n","k","e","d","i","n",".","c","o","m">>},
     youtube   |-> {<<"y","o","u","t","u","b","e",".","c","o","m">>, <<"y","o","u","t","u",".","b","e">>},
     whatsapp  |-> {<<"w","a",".","m","e">>, <<"w","h","a","t","s","a","p","p",".","c","o","m">>}]

HasToken(href, p) == \E t \in PlatformTokens[p] : Contains(href, t)

EmptySocial == [p \in Platforms |-> <<>>]

NoSource == [p \in Platforms |-> 0]

\* the branch of the chain a link takes: the first platform, in chain order,
\* whose token is in the href and whose field is still empty; 0 when no branch
LinkBranch(data, href) ==
    LET hit == {k \in 1..Len(PlatformOrder) :
                   HasToken(href, PlatformOrder[k]) /\ data[PlatformOrder[k]] = <<>>}
    IN  IF hit = {} THEN 0 ELSE SetMin(hit)

\* one iteration of "for link in links"; st.src records the link's index
SocialLoopBody(st, link, idx, base_url) ==
    LET href == Lower(link.href)
        k    == LinkBranch(st.data, href)
    IN  IF k = 0 THEN st
        ELSE IF ~is_valid_social_url(href, PlatformOrder[k]) THEN st
        ELSE [data |-> [st.data EXCEPT ![PlatformOrder[k]] = clean_social_url(href, base_url)],
              src  |-> [st.src EXCEPT ![PlatformOrder[k]] = idx]]

RECURSIVE SocialLoop(_, _, _, _)
SocialLoop(st, ls, idx, base_url) ==
    IF idx > Len(ls) THEN st
    ELSE SocialLoop(SocialLoopBody(st, ls[idx], idx, base_url), ls, idx + 1, base_url)

\* the whole loop over soup.find_all('a', href=True)
SocialTrace(ls, base_url) == SocialLoop([data |-> EmptySocial, src |-> NoSource], ls, 1, base_url)

extract_social_media(ls, base_url) == SocialTrace(ls, base_url).data

----------------------------------------------------------------------------
(* Inputs of the social-link extraction check                              *)

MaxLinks == 3

A(href, text) == [href |-> href, text |-> text]

FacebookProfile == A(ExampleAccepted, <<"F","a","c","e","b","o","o","k">>)

FacebookShare == A(<<"h","t","t","p","s",":","/","/","w","w","w",".","f","a","c","e","b","o","o","k",".","c","o","m","/","s","h","a","r","e","r",".","p","h","p","?","u","=","h","t","t","p","s",":","/","/","i","n","s","t","a","g","r","a","m",".","c","o","m","/","a","c","m","e">>, <<"S","h","a","r","e">>)

\* a link whose anchor text names a platform and whose href names none
AnchorOnly == A(<<"h","t","t","p","s",":","/","/","a","c","m","e",".","p","k","/","f","o","l","l","o","w","-","u","s","-","o","n","-","s","o","c","i","a","l","-","m","e","d","i","a","-","p","a","g","e","s">>, <<"F","a","c","e","b","o","o","k",".","c","o","m","/","A","c","m","e","R","e","n","t","a","l","s">>)

LinkPool ==
    {FacebookProfile, FacebookShare,
     A(<<"h","t","t","p","s",":","/","/","w","w","w",".","f","a","c","e","b","o","o","k",".","c","o","m","/","c","i","t","y","r","e","n","t","a","l","s","p","k",".","o","f","f","i","c","i","a","l">>, <<>>),
     A(<<"h","t","t","p","s",":","/","/","w","w","w",".","i","n","s","t","a","g","r","a","m",".","c","o","m","/","c","i","t","y","c","a","r","h","i","r","e",".","p","k">>, <<"I","n","s","t","a","g","r","a","m">>),
     A(<<"h","t","t","p","s",":","/","/","f","a","c","e","b","o","o","k",".","c","o","m","/","l","o","g","i","n">>, <<"L","o","g"," ","i","n">>),
     A(<<"h","t","t","p","s",":","/","/","w","w","w",".","y","o","u","t","u","b","e",".","c","o","m","/","@","a","c","m","e","r","e","n","t","a","l","s","o","f","f","i","c","i","a","l">>, <<"Y","o","u","T","u","b","e">>),
     A(<<"/","c","o","n","t","a","c","t">>, <<"C","o","n","t","a","c","t"," ","u","s">>),
     A(<<"H","T","T","P","S",":","/","/","W","W","W",".","F","a","c","e","b","o","o","k",".","c","o","m","/","A","c","m","e","R","e","n","t","a","l","s","O","f","f","i","c","i","a","l">>, <<"F","B">>),
     A(<<"h","t","t","p","s",":","/","/","w","w","w",".","f","a","c","e","b","o","o","k",".","c","o","m"," "," "," "," "," "," "," "," "," "," "," "," "," "," "," "," ">>, <<>>),
     AnchorOnly}

BaseUrl == <<"h","t","t","p","s",":","/","/","a","c","m","e",".","p","k">>

LinkLists == UNION {[1..n -> LinkPool] : n \in 0..MaxLinks}

SocialInit ==
    /\ pc = "social_start"
    /\ links \in LinkLists
    /\ social_data = EmptySocial
    /\ social_src = NoSource
    /\ UrlIdle
    /\ EnrichIdle
    /\ BatchIdle
    /\ EmailIdle
    /\ ScraperIdle

\* social_data = self.extract_social_media(soup, base_url)
ExtractSocial ==
    /\ pc = "social_start"
    /\ LET tr == SocialTrace(links, BaseUrl)
       IN  /\ social_data' = tr.data
           /\ social_src' = tr.src
    /\ pc' = "social_done"
    /\ UNCHANGED <<links, urlVars, enrichVars, batchVars, emailVars, scraperVars>>

SocialNext == ExtractSocial

SpecSocial == SocialInit /\ [][SocialNext]_vars

----------------------------------------------------------------------------
(* JSON values of a request body                                           *)

JStr(s) == [t |-> "str", v |-> s]

\* a JSON number, by its digits
JNum(digits) == [t |-> "num", v |-> digits]

JNull == [t |-> "null", v |-> <<>>]

\* a JSON object: a Python dict, the function from its keys to their values
JObj(f) == [t |-> "obj", v |-> f]

\* Python truth value: bool(x)
Truthy(j) ==
    CASE j.t = "str"  -> j.v # <<>>
      [] j.t = "num"  -> j.v # <<"0">>
      [] j.t = "null" -> FALSE
      [] j.t = "obj"  -> DOMAIN j.v # {}

\* d.get(key, default) on a dict
DictGet(d, key, default) == IF key \in DOMAIN d.v THEN d.v[key] ELSE default

\* d.update(new): the keys of new are added or overwritten
DictUpdate(d, new) ==
    JObj([k \in (DOMAIN d.v) \cup (DOMAIN new) |-> IF k \in DOMAIN new THEN new[k] ELSE d.v[k]])

----------------------------------------------------------------------------
(* ContactDetailsExtractor.is_valid_url                                    *)

invalid_domains ==
    {<<"g","o","o","g","l","e",".","c","o","m">>, <<"m","a","p","s",".","g","o","o","g","l","e",".","c","o","m">>, <<"f","a","c","e","b","o","o","k",".","c","o","m">>, <<"i","n","s","t","a","g","r","a","m",".","c","o","m">>, <<"t","w","i","t","t","e","r",".","c","o","m">>,
     <<"l","i","n","k","e","d","i","n",".","c","o","m">>, <<"y","o","u","t","u","b","e",".","c","o","m">>, <<"e","x","a","m","p","l","e",".","c","o","m">>, <<"t","e","s","t",".","c","o","m">>, <<"l","o","c","a","l","h","o","s","t">>, <<"1","2","7",".","0",".","0",".","1">>}

\* a variant that compares the host with the table instead of searching it
is_valid_url_ExactHost(w) ==
    IF ~Truthy(w) THEN "false"
    ELSE IF w.t # "str" THEN "raise"
    ELSE IF ~StartsWith(w.v, <<"h","t","t","p">>) THEN "false"
    ELSE IF UrlparseRaises(w.v) THEN "false"
    ELSE IF Lower(Netloc(w.v)) \in invalid_domains THEN "false"
    ELSE "true"

\* "true" / "false", or "raise" when the value has no startswith (AttributeError)
is_valid_url(w) ==
    IF ~Truthy(w) THEN "false"
    ELSE IF w.t # "str" THEN "raise"
    ELSE IF ~StartsWith(w.v, <<"h","t","t","p">>) THEN "false"
    ELSE IF UrlparseRaises(w.v) THEN "false"
    ELSE IF \E d \in invalid_domains : Contains(Lower(Netloc(w.v)), d) THEN "false"
    ELSE "true"

----------------------------------------------------------------------------
(* ContactDetailsExtractor.extract_emails                                  *)

Letters == LowerLetters \cup UpperLetters

LocalChars == Letters \cup Digits \cup {".", "_", "%", "+", "-"}

DomainChars == Letters \cup Digits \cup {".", "-"}

\* [A-Z|a-z] of the first two patterns: the bar is a member of the class
TldCharsBar == Letters \cup {"|"}

TldChars == Letters

WordChars == Letters \cup Digits \cup {"_"}

IsWordAt(s, i) == i >= 1 /\ i <= Len(s) /\ s[i] \in WordChars

\* \b just before index i
Boundary(s, i) == IsWordAt(s, i - 1) # IsWordAt(s, i)

\* the index just past the longest run of characters of cs that starts at i
RunEnd(s, cs, i) ==
    LET stop == {k \in i..Len(s) : s[k] \notin cs}
    IN  IF stop = {} THEN Len(s) + 1 ELSE SetMin(stop)

\* the index just past the match of  local+ @ domain+ \. tld{2,}  that starts
\* at i (greedy, with backtracking), 0 when there is none; bounded adds the \b
\* at both ends
EmailMatchEnd(s, i, bounded, tld) ==
    LET at == RunEnd(s, LocalChars, i)
    IN  IF at = i \/ at > Len(s) THEN 0
        ELSE IF s[at] # "@" \/ (bounded /\ ~Boundary(s, i)) THEN 0
        ELSE LET dend    == RunEnd(s, DomainChars, at + 1)
                 Takes(d) == {n \in 2..(RunEnd(s, tld, d + 1) - (d + 1)) :
                                 bounded => Boundary(s, d + 1 + n)}
                 dots    == {d \in (at + 2)..(dend - 1) : s[d] = "." /\ Takes(d) # {}}
             IN  IF dots = {} THEN 0
                 ELSE SetMax(dots) + 1 + SetMax(Takes(SetMax(dots)))

\* re.findall(pattern, s) from index from on
RECURSIVE FindAllEmails(_, _, _, _)
FindAllEmails(s, from, bounded, tld) ==
    LET starts == {i \in from..Len(s) : EmailMatchEnd(s, i, bounded, tld) # 0}
    IN  IF starts = {} THEN <<>>
        ELSE LET i == SetMin(starts)
                 e == EmailMatchEnd(s, i, bounded, tld)
             IN  <<SubSeq(s, i, e - 1)>> \o FindAllEmails(s, e, bounded, tld)

\* "Remove duplicates while preserving order", compared in lower case
RECURSIVE UniqueEmails(_, _)
UniqueEmails(emails, seen) ==
    IF emails = <<>> THEN <<>>
    ELSE IF Lower(Head(emails)) \in seen THEN UniqueEmails(Tail(emails), seen)
    ELSE <<Head(emails)>> \o UniqueEmails(Tail(emails), seen \cup {Lower(Head(emails))})

email_invalid_domains ==
    {<<"e","x","a","m","p","l","e",".","c","o","m">>, <<"t","e","s","t",".","c","o","m">>, <<"g","o","o","g","l","e",".","c","o","m">>, <<"g","m","a","i","l",".","c","o","m">>, <<"y","a","h","o","o",".","c","o","m">>, <<"h","o","t","m","a","i","l",".","c","o","m">>,
     <<"o","u","t","l","o","o","k",".","c","o","m">>, <<"l","i","v","e",".","c","o","m">>, <<"d","o","m","a","i","n",".","c","o","m">>, <<"s","a","m","p","l","e",".","c","o","m">>, <<"d","e","m","o",".","c","o","m">>, <<"p","l","a","c","e","h","o","l","d","e","r",".","c","o","m">>}

\* email_lower.split('@')[-1]
EmailDomain(e) ==
    LET ats == {i \in 1..Len(e) : e[i] = "@"}
    IN  IF ats = {} THEN <<>> ELSE SubSeq(e, SetMax(ats) + 1, Len(e))

MinEmailLen == 5

\* a variant that tests the local part for the prefixes admin and test
IsValidEmail_LocalPrefix(email) ==
    LET lo == Lower(email)
    IN  /\ ~\E bad \in {<<"@","e","x","a","m","p","l","e",".","c","o","m">>, <<"@","t","e","s","t",".","c","o","m">>, <<"@","g","o","o","g","l","e",".","c","o","m">>} : Contains(lo, bad)
        /\ Contains(email, <<"@">>)
        /\ Len(email) > MinEmailLen
        /\ EmailDomain(lo) \notin email_invalid_domains
        /\ ~StartsWith(lo, <<"a","d","m","i","n">>)
        /\ ~StartsWith(lo, <<"t","e","s","t">>)
        /\ ~StartsWith(lo, <<"i","n","f","o","@","e","x","a","m","p","l","e">>)
        /\ ~StartsWith(lo, <<"c","o","n","t","a","c","t","@","e","x","a","m","p","l","e">>)

\* the filter of lines 128-134
IsValidEmail(email) ==
    LET lo == Lower(email)
    IN  /\ ~\E bad \in {<<"@","e","x","a","m","p","l","e",".","c","o","m">>, <<"@","t","e","s","t",".","c","o","m">>, <<"@","g","o","o","g","l","e",".","c","o","m">>} : Contains(lo, bad)
        /\ Contains(email, <<"@">>)
        /\ Len(email) > MinEmailLen
        /\ EmailDomain(lo) \notin email_invalid_domains
        /\ ~StartsWith(lo, <<"a","d","m","i","n","@">>)
        /\ ~StartsWith(lo, <<"t","e","s","t","@">>)
        /\ ~StartsWith(lo, <<"i","n","f","o","@","e","x","a","m","p","l","e">>)
        /\ ~StartsWith(lo, <<"c","o","n","t","a","c","t","@","e","x","a","m","p","l","e">>)

\* unique_emails: the matches of the four patterns, in pattern order, without
\* the repeated ones
EmailCandidates(text) ==
    LET bounded == FindAllEmails(text, 1, TRUE, TldCharsBar)
        plain   == FindAllEmails(text, 1, FALSE, TldChars)
    IN  UniqueEmails(bounded \o bounded \o plain \o plain, {})

extract_emails(text) == SelectSeq(EmailCandidates(text), IsValidEmail)

----------------------------------------------------------------------------
(* A fetched page, as BeautifulSoup presents it: the sequence of its text  *)
(* nodes and of its <a href> elements, in document order                   *)

TextNode(text) == [tag |-> "text", href |-> <<>>, text |-> text]

ANode(href, text) == [tag |-> "a", href |-> href, text |-> text]

IsANode(n) == n.tag = "a"

\* soup.find_all('a', href=True)
PageLinks(page) == SelectSeq(page, IsANode)

\* soup.get_text()
RECURSIVE PageText(_)
PageText(page) == IF page = <<>> THEN <<>> ELSE Head(page).text \o PageText(Tail(page))

\* what session.get returns or raises: exc is "none", "timeout" or "connection"
Response(exc, code, page) == [exc |-> exc, code |-> code, page |-> page]

HttpErrorFrom == 400

HttpErrorTo == 600

\* a variant in which no status raises
RaisesForStatus_Never(code) == FALSE

\* response.raise_for_status() raises HTTPError on a 4xx or 5xx status
RaisesForStatus(code) == code >= HttpErrorFrom /\ code < HttpErrorTo

\* the contact-page response of the j-th contact fetch of a site
ContactResponse(web, j) ==
    IF j <= Len(web.contacts) THEN web.contacts[j] ELSE web.rest

----------------------------------------------------------------------------
(* ContactDetailsExtractor.extract_from_contact_page                       *)

contact_keywords ==
    {<<"c","o","n","t","a","c","t">>, <<"a","b","o","u","t">>, <<"i","n","f","o">>, <<"i","n","f","o","r","m","a","t","i","o","n">>, <<"r","e","a","c","h">>, <<"c","o","n","n","e","c","t">>, <<"s","u","p","p","o","r","t">>, <<"h","e","l","p">>,
     <<"t","e","a","m">>, <<"s","t","a","f","f">>, <<"p","e","o","p","l","e">>, <<"c","o","m","p","a","n","y">>, <<"b","u","s","i","n","e","s","s">>, <<"s","e","r","v","i","c","e","s">>, <<"l","o","c","a","t","i","o","n">>,
     <<"a","d","d","r","e","s","s">>, <<"p","h","o","n","e">>, <<"e","m","a","i","l">>, <<"s","o","c","i","a","l">>, <<"m","e","d","i","a">>, <<"f","o","l","l","o","w">>}

contact_phrases == {<<"c","o","n","t","a","c","t"," ","u","s">>, <<"g","e","t"," ","i","n"," ","t","o","u","c","h">>, <<"r","e","a","c","h"," ","u","s">>, <<"c","a","l","l"," ","u","s">>}

IsContactLink(link) ==
    \E kw \in contact_keywords : Contains(Lower(link.href), kw) \/ Contains(Lower(link.text), kw)

\* contact_links: the hrefs of the links that name a contact keyword
ContactLinks(page) ==
    LET sel == SelectSeq(PageLinks(page), IsContactLink)
    IN  [i \in 1..Len(sel) |-> sel[i].href]

\* contact_url of lines 406-412
ContactUrl(base_url, contact_link) ==
    IF StartsWith(contact_link, <<"h","t","t","p">>) THEN contact_link
    ELSE IF StartsWith(contact_link, <<"/">>) THEN RStrip(base_url, "/") \o contact_link
    ELSE RStrip(base_url, "/") \o <<"/">> \o contact_link

AnySocial(data) == \E p \in Platforms : data[p] # <<>>

\* "if url and not social_data[platform]: social_data[platform] = url"
MergeSocial(data, found) ==
    [p \in Platforms |-> IF found[p] # <<>> /\ data[p] = <<>> THEN found[p] ELSE data[p]]

MaxContactPages == 5

\* a variant that tries one page more
ContactSlice_OneMore(contact_links) ==
    SubSeq(contact_links, 1, IF Len(contact_links) < MaxContactPages + 1
                             THEN Len(contact_links) ELSE MaxContactPages + 1)

\* contact_links[:5]
ContactSlice(contact_links) ==
    SubSeq(contact_links, 1, IF Len(contact_links) < MaxContactPages
                             THEN Len(contact_links) ELSE MaxContactPages)

\* "if any(social_data.values()): break"
ContactBreak(data) == AnySocial(data)

\* "for contact_link in contact_links[:5]", from its j-th iteration on;
\* st.fetches is the list of URLs handed to session.get so far
RECURSIVE ContactLoop(_, _, _, _, _)
ContactLoop(st, clinks, j, base_url, web) ==
    IF j > Len(clinks) THEN st
    ELSE LET contact_url == ContactUrl(base_url, clinks[j])
             r           == ContactResponse(web, j)
             fetched     == Append(st.fetches, contact_url)
         IN  IF r.exc # "none"
             THEN ContactLoop([st EXCEPT !.fetches = fetched], clinks, j + 1, base_url, web)
             ELSE LET data == MergeSocial(st.data,
                                          extract_social_media(PageLinks(r.page), contact_url))
                  IN  IF ContactBreak(data)
                      THEN [data |-> data, fetches |-> fetched]
                      ELSE ContactLoop([data |-> data, fetches |-> fetched],
                                       clinks, j + 1, base_url, web)

extract_from_contact_page(page, base_url, web, fetches) ==
    LET onMain == IF \E ph \in contact_phrases : Contains(Lower(PageText(page)), ph)
                  THEN MergeSocial(EmptySocial, extract_social_media(PageLinks(page), base_url))
                  ELSE EmptySocial
    IN  ContactLoop([data |-> onMain, fetches |-> fetches],
                    ContactSlice(ContactLinks(page)), 1, base_url, web)

----------------------------------------------------------------------------
(* ContactDetailsExtractor.extract_contact_details                         *)

ContactKeys == {"email"} \cup Platforms

\* the dict handed to business.update
ContactUpdate(email, data) ==
    [k \in ContactKeys |-> IF k = "email" THEN JStr(email) ELSE JStr(data[k])]

\* the try block once the main page is there
CrawlSite(biz, website, web) ==
    LET page   == web.main.page
        emails == extract_emails(PageText(page))
        email  == IF emails = <<>> THEN <<>> ELSE emails[1]
        onMain == extract_social_media(PageLinks(page), website)
        crawl  == IF AnySocial(onMain)
                  THEN [data |-> onMain, fetches |-> <<website>>]
                  ELSE extract_from_contact_page(page, website, web, <<website>>)
    IN  [raised   |-> FALSE,
         business |-> DictUpdate(biz, ContactUpdate(email, crawl.data)),
         fetches  |-> crawl.fetches]

\* the call on one element of the request's list: raised tells whether it
\* raised, business is the value returned, fetches the URLs requested in order
extract_contact_details(biz, web) ==
    IF biz.t # "obj"
    THEN [raised |-> TRUE, business |-> biz, fetches |-> <<>>]
    ELSE LET website == DictGet(biz, "website", JStr(<<>>))
             ok      == is_valid_url(website)
         IN  IF ~Truthy(website) \/ ok = "false"
             THEN [raised |-> FALSE, business |-> biz, fetches |-> <<>>]
             ELSE IF ok = "raise"
             THEN [raised |-> TRUE, business |-> biz, fetches |-> <<>>]
             ELSE IF web.main.exc # "none" \/ RaisesForStatus(web.main.code)
             THEN [raised |-> FALSE, business |-> biz, fetches |-> <<website.v>>]
             ELSE CrawlSite(biz, website.v, web)

----------------------------------------------------------------------------
(* Inputs of the single-business enrichment check                          *)

\* contact fields as the scraper sends them: present and empty
BlankContact == [k \in ContactKeys |-> JStr(<<>>)]

\* contact fields that are already known
OldContact ==
    [email     |-> JStr(<<"o","w","n","e","r","@","c","i","t","y","r","e","n","t","a","l","s",".","p","k">>),
     facebook  |-> JStr(<<"h","t","t","p","s",":","/","/","w","w","w",".","f","a","c","e","b","o","o","k",".","c","o","m","/","c","i","t","y","r","e","n","t","a","l","s",".","o","l","d">>),
     instagram |-> JStr(<<"h","t","t","p","s",":","/","/","w","w","w",".","i","n","s","t","a","g","r","a","m",".","c","o","m","/","c","i","t","y","r","e","n","t","a","l","s",".","o","l","d">>),
     twitter   |-> JStr(<<"h","t","t","p","s",":","/","/","t","w","i","t","t","e","r",".","c","o","m","/","c","i","t","y","r","e","n","t","a","l","s","_","o","l","d">>),
     linkedin  |-> JStr(<<"h","t","t","p","s",":","/","/","w","w","w",".","l","i","n","k","e","d","i","n",".","c","o","m","/","c","o","m","p","a","n","y","/","c","i","t","y","r","e","n","t","a","l","s">>),
     youtube   |-> JStr(<<"h","t","t","p","s",":","/","/","w","w","w",".","y","o","u","t","u","b","e",".","c","o","m","/","c","i","t","y","r","e","n","t","a","l","s","o","l","d">>),
     whatsapp  |-> JStr(<<"h","t","t","p","s",":","/","/","w","a",".","m","e","/","9","2","3","0","0","1","2","3","4","5","6","7">>)]

NoContact == [k \in {} |-> JNull]

ContactShapes == {NoContact, BlankContact, OldContact}

\* a business dict with the given website and contact fields
Business(website, contact) ==
    JObj([k \in {"name", "website"} \cup DOMAIN contact |->
             IF k = "name" THEN JStr(<<"C","i","t","y"," ","R","e","n","t","a","l","s">>)
             ELSE IF k = "website" THEN website
             ELSE contact[k]])

\* a business dict without the website key
BusinessNoWebsite(contact) ==
    JObj([k \in {"name"} \cup DOMAIN contact |->
             IF k = "name" THEN JStr(<<"C","i","t","y"," ","R","e","n","t","a","l","s">>) ELSE contact[k]])

\* websites that are empty or on an aggregator's host
AggregatorWebsites ==
    {JStr(<<>>), JNull,
     JStr(<<"h","t","t","p","s",":","/","/","w","w","w",".","f","a","c","e","b","o","o","k",".","c","o","m","/","c","i","t","y","r","e","n","t","a","l","s">>),
     JStr(<<"h","t","t","p","s",":","/","/","m","a","p","s",".","g","o","o","g","l","e",".","c","o","m","/","?","c","i","d","=","4","2">>),
     JStr(<<"h","t","t","p",":","/","/","I","n","s","t","a","g","r","a","m",".","c","o","m","/","c","i","t","y","r","e","n","t","a","l","s">>)}

\* websites of a business's own
OwnWebsites == {JStr(<<"h","t","t","p","s",":","/","/","c","i","t","y","r","e","n","t","a","l","s",".","p","k","/">>), JStr(<<"h","t","t","p",":","/","/","a","c","m","e",".","p","k","/","?","r","e","f","=","f","a","c","e","b","o","o","k",".","c","o","m">>)}

\* values that are no absolute URL
OddWebsites == {JStr(<<"w","w","w",".","c","i","t","y","r","e","n","t","a","l","s",".","p","k">>), JNum(<<"4","2">>)}

PageSocial ==
    <<TextNode(<<"B","o","o","k"," ","a","t"," ","B","o","o","k","i","n","g","s","@","C","i","t","y","R","e","n","t","a","l","s",".","p","k"," ","o","r"," ","g","m","a","i","l"," ">>),
      ANode(<<"h","t","t","p","s",":","/","/","f","a","c","e","b","o","o","k",".","c","o","m","/","l","o","g","i","n">>, <<"L","o","g"," ","i","n">>),
      ANode(ExampleAccepted, <<"F","a","c","e","b","o","o","k">>),
      ANode(<<"/","c","o","n","t","a","c","t">>, <<"C","o","n","t","a","c","t">>)>>

PageNothing == <<TextNode(<<"W","e","l","c","o","m","e"," ","a","d","m","i","n","@","e","x","a","m","p","l","e",".","c","o","m">>)>>

PageContact ==
    <<TextNode(<<"M","a","i","l"," ","i","n","f","o","@","a","c","m","e",".","p","k"," ">>),
      ANode(<<"/","c","o","n","t","a","c","t">>, <<"C","o","n","t","a","c","t">>),
      ANode(<<"a","b","o","u","t",".","h","t","m","l">>, <<"U","s">>),
      ANode(<<"h","t","t","p","s",":","/","/","a","c","m","e",".","p","k","/","p","a","g","e","2">>, <<"O","u","r"," ","t","e","a","m">>),
      ANode(<<"/","p","r","i","c","e","s">>, <<"P","r","i","c","e","s">>),
      ANode(<<"/","h","e","l","p">>, <<>>),
      ANode(<<"H","T","T","P","S",":","/","/","A","C","M","E",".","P","K","/","S","u","p","p","o","r","t">>, <<>>),
      ANode(<<"/","l","o","c","a","t","i","o","n","s">>, <<>>),
      ANode(<<"h","t","t","p","s",":","/","/","t","w","i","t","t","e","r",".","c","o","m","/","l","o","g","i","n">>, <<"T","w","i","t","t","e","r">>)>>

PagePhrase == <<TextNode(<<"C","o","n","t","a","c","t"," ","U","s"," ","t","o","d","a","y">>), ANode(<<"r","e","a","c","h",".","p","h","p">>, <<"R","e","a","c","h">>)>>

Timeout == Response("timeout", 0, <<>>)

Refused == Response("connection", 0, <<>>)

\* a 200 page with nothing on it
EmptyPage == Response("none", 200, <<TextNode(<<"N","o","t","h","i","n","g"," ","h","e","r","e">>)>>)

\* a 200 page with a profile link
SocialPage == Response("none", 200, <<ANode(<<"h","t","t","p","s",":","/","/","w","w","w",".","i","n","s","t","a","g","r","a","m",".","c","o","m","/","c","i","t","y","c","a","r","h","i","r","e",".","p","k">>, <<"I","n","s","t","a","g","r","a","m">>)>>)

\* a 404 page whose footer has a profile link
NotFoundPage ==
    Response("none", 404, <<TextNode(<<"N","o","t"," ","f","o","u","n","d"," ","s","a","l","e","s","@","a","c","m","e",".","p","k">>), ANode(ExampleAccepted, <<"F","a","c","e","b","o","o","k">>)>>)

\* a final 3xx answer: one that requests does not follow and that carries no body
NotModified == Response("none", 304, <<>>)

ServerError == Response("none", 500, <<TextNode(<<"O","o","p","s">>)>>)

FailedMain == {Timeout, Refused, NotFoundPage, ServerError}

ContactAnswers == {Timeout, EmptyPage, SocialPage, NotFoundPage}

MaxScripted == 2

\* the answers to the first contact fetches, then the same answer to all later ones
ContactScripts == UNION {[1..n -> ContactAnswers] : n \in 0..MaxScripted}

Site(main, contacts, rest) == [main |-> main, contacts |-> contacts, rest |-> rest]

Sites ==
    {Site(m, <<>>, Timeout) : m \in FailedMain \cup {NotModified}}
    \cup {Site(Response("none", 200, p), <<>>, Timeout) : p \in {PageSocial, PageNothing}}
    \cup {Site(Response("none", 200, p), c, r) :
             p \in {PageContact, PagePhrase}, c \in ContactScripts, r \in {Timeout, EmptyPage}}

\* answers nothing: the site of a business that has no website of its own
DeadSite == Site(Refused, <<>>, Refused)

EnrichCases ==
    {<<Business(w, c), DeadSite>> : w \in AggregatorWebsites \cup OddWebsites, c \in ContactShapes}
    \cup {<<BusinessNoWebsite(c), DeadSite>> : c \in ContactShapes}
    \cup {<<JStr(<<"o","o","p","s">>), DeadSite>>}
    \cup {<<Business(w, c), s>> : w \in OwnWebsites, c \in ContactShapes, s \in Sites}

EnrichInit ==
    /\ pc = "enrich_start"
    /\ \E case \in EnrichCases : business = case[1] /\ site = case[2]
    /\ outcome = <<>>
    /\ UrlIdle
    /\ SocialIdle
    /\ BatchIdle
    /\ EmailIdle
    /\ ScraperIdle

\* enriched_business = extractor.extract_contact_details(business)
Enrich ==
    /\ pc = "enrich_start"
    /\ outcome' = extract_contact_details(business, site)
    /\ pc' = "enrich_done"
    /\ UNCHANGED <<business, site, urlVars, socialVars, batchVars, emailVars, scraperVars>>

EnrichNext == Enrich

SpecEnrich == EnrichInit /\ [][EnrichNext]_vars

----------------------------------------------------------------------------
(* POST /enrich: enrich_businesses                                          *)

max_workers == 5

Future(state, raised, result) == [state |-> state, raised |-> raised, result |-> result]

\* jsonify({"error": ...}), status
ErrorReply(status, message) == [status |-> status, body |-> [error |-> message]]

\* jsonify({"success": True, "businesses": ..., "total_enriched": ...})
SuccessReply(enriched) ==
    [status |-> 200,
     body   |-> [success |-> TRUE, businesses |-> enriched, total_enriched |-> Len(enriched)]]

\* an element of enriched_businesses; src is the index of the future it came from
Entry(i, biz) == [src |-> i, business |-> biz]

Pending == {i \in 1..Len(futures) : futures[i].state = "pending"}

Running == {i \in 1..Len(futures) : futures[i].state = "running"}

AllFinished == \A i \in 1..Len(futures) : futures[i].state \in {"done", "collected"}

\* if not businesses: return jsonify({"error": "No businesses provided"}), 400
RejectEmpty ==
    /\ pc = "batch_received"
    /\ businesses = <<>>
    /\ response' = ErrorReply(400, "No businesses provided")
    /\ pc' = "batch_responded"
    /\ UNCHANGED <<businesses, sites, futures, enriched_businesses>>
    /\ UNCHANGED <<urlVars, socialVars, enrichVars, emailVars, scraperVars>>

\* future_to_business = {executor.submit(...): business for business in businesses}
Submit ==
    /\ pc = "batch_received"
    /\ businesses # <<>>
    /\ futures' = [i \in 1..Len(businesses) |-> Future("pending", FALSE, businesses[i])]
    /\ pc' = "batch_collecting"
    /\ UNCHANGED <<businesses, sites, enriched_businesses, response>>
    /\ UNCHANGED <<urlVars, socialVars, enrichVars, emailVars, scraperVars>>

\* a variant whose pool starts a thread for every queued work item
WorkerStart_Unbounded ==
    /\ pc \in {"batch_collecting", "batch_failing"}
    /\ Pending # {}
    /\ futures' = [futures EXCEPT ![SetMin(Pending)].state = "running"]
    /\ UNCHANGED <<pc, businesses, sites, enriched_businesses, response>>
    /\ UNCHANGED <<urlVars, socialVars, enrichVars, emailVars, scraperVars>>

\* a pool thread takes the oldest queued work item
WorkerStart ==
    /\ pc \in {"batch_collecting", "batch_failing"}
    /\ Pending # {}
    /\ Cardinality(Running) < max_workers
    /\ futures' = [futures EXCEPT ![SetMin(Pending)].state = "running"]
    /\ UNCHANGED <<pc, businesses, sites, enriched_businesses, response>>
    /\ UNCHANGED <<urlVars, socialVars, enrichVars, emailVars, scraperVars>>

\* the thread runs extractor.extract_contact_details(business) to its end and
\* sets the future's result or exception
WorkerFinish(i) ==
    /\ pc \in {"batch_collecting", "batch_failing"}
    /\ futures[i].state = "running"
    /\ LET o == extract_contact_details(businesses[i], sites[i])
       IN  futures' = [futures EXCEPT ![i] = Future("done", o.raised, o.business)]
    /\ UNCHANGED <<pc, businesses, sites, enriched_businesses, response>>
    /\ UNCHANGED <<urlVars, socialVars, enrichVars, emailVars, scraperVars>>

\* except Exception: ...; enriched_businesses.append(business)
OnFutureException(enriched, i, biz) == Append(enriched, Entry(i, biz))

\* one turn of "for future in as_completed(future_to_business)": the result is
\* appended; on an exception the handler logs business.get('name', 'unknown'),
\* which itself raises when the element is no dict, and appends the original
Collect(i) ==
    /\ pc = "batch_collecting"
    /\ futures[i].state = "done"
    /\ futures' = [futures EXCEPT ![i].state = "collected"]
    /\ IF ~futures[i].raised
       THEN /\ enriched_businesses' = Append(enriched_businesses, Entry(i, futures[i].result))
            /\ pc' = pc
       ELSE IF businesses[i].t = "obj"
       THEN /\ enriched_businesses' = OnFutureException(enriched_businesses, i, businesses[i])
            /\ pc' = pc
       ELSE /\ enriched_businesses' = enriched_businesses
            /\ pc' = "batch_failing"
    /\ UNCHANGED <<businesses, sites, response>>
    /\ UNCHANGED <<urlVars, socialVars, enrichVars, emailVars, scraperVars>>

\* every future was collected: the with block ends and the list is returned
ReplySuccess ==
    /\ pc = "batch_collecting"
    /\ \A i \in 1..Len(futures) : futures[i].state = "collected"
    /\ response' = SuccessReply(enriched_businesses)
    /\ pc' = "batch_responded"
    /\ UNCHANGED <<businesses, sites, futures, enriched_businesses>>
    /\ UNCHANGED <<urlVars, socialVars, enrichVars, emailVars, scraperVars>>

\* the exception leaves the with block, which waits for every worker, and
\* reaches "except Exception as e: return jsonify({"error": str(e)}), 500"
ReplyError ==
    /\ pc = "batch_failing"
    /\ AllFinished
    /\ response' = ErrorReply(500, "'str' object has no attribute 'get'")
    /\ pc' = "batch_responded"
    /\ UNCHANGED <<businesses, sites, futures, enriched_businesses>>
    /\ UNCHANGED <<urlVars, socialVars, enrichVars, emailVars, scraperVars>>

----------------------------------------------------------------------------
(* Inputs of the batch check                                               *)

MaxBatch == 3

OwnSite == JStr(<<"h","t","t","p","s",":","/","/","c","i","t","y","r","e","n","t","a","l","s",".","p","k","/">>)

\* a home page with an address and a profile link, and no contact page
PageHome == <<TextNode(<<"M","a","i","l"," ","i","n","f","o","@","a","c","m","e",".","p","k"," ">>), ANode(ExampleAccepted, <<"F","a","c","e","b","o","o","k">>)>>

\* an element of the list with the site behind it
BatchCases ==
    {<<Business(OwnSite, BlankContact), Site(Response("none", 200, PageHome), <<>>, Timeout)>>,
     <<Business(OwnSite, BlankContact), Site(Timeout, <<>>, Timeout)>>,
     <<Business(JNum(<<"4","2">>), NoContact), DeadSite>>,
     <<JStr(<<"o","o","p","s">>), DeadSite>>}

BatchInit ==
    /\ pc = "batch_received"
    /\ \E n \in 0..MaxBatch : \E cases \in [1..n -> BatchCases] :
          /\ businesses = [i \in 1..n |-> cases[i][1]]
          /\ sites = [i \in 1..n |-> cases[i][2]]
    /\ futures = <<>>
    /\ enriched_businesses = <<>>
    /\ response = <<>>
    /\ UrlIdle
    /\ SocialIdle
    /\ EnrichIdle
    /\ EmailIdle
    /\ ScraperIdle

BatchNext ==
    \/ RejectEmpty
    \/ Submit
    \/ WorkerStart
    \/ \E i \in 1..Len(futures) : WorkerFinish(i)
    \/ \E i \in 1..Len(futures) : Collect(i)
    \/ ReplySuccess
    \/ ReplyError

SpecBatch == BatchInit /\ [][BatchNext]_vars

----------------------------------------------------------------------------
(* Inputs of the email extraction check                                    *)

MaxEmails == 2

\* an address that only the patterns without \b find: a digit follows it
RunOnAddress == <<"i","n","f","o","@","a","c","m","e",".","p","k","0","3","0","0">>

EmailWords ==
    {<<"b","o","o","k","i","n","g","s","@","c","i","t","y","r","e","n","t","a","l","s",".","p","k">>, <<"a","d","m","i","n","@","e","x","a","m","p","l","e",".","c","o","m">>, <<"i","n","f","o","@","g","m","a","i","l",".","c","o","m">>,
     <<"a","d","m","i","n","i","s","t","r","a","t","o","r","@","a","c","m","e",".","p","k">>, <<"t","e","s","t","d","r","i","v","e","@","a","c","m","e",".","p","k">>, <<"T","e","s","t","@","a","c","m","e",".","p","k">>,
     <<"s","a","l","e","s","@","e","x","a","m","p","l","e",".","c","o","m",".","p","k">>, <<"S","a","l","e","s","@","A","c","m","e",".","p","k">>, <<"s","a","l","e","s","@","a","c","m","e",".","p","k">>,
     <<"h","r","@","p","l","a","c","e","h","o","l","d","e","r",".","c","o","m">>, <<"c","o","n","t","a","c","t","@","e","x","a","m","p","l","e","s",".","n","e","t">>, RunOnAddress}

\* the words of ws with one space between them
RECURSIVE JoinWords(_)
JoinWords(ws) ==
    IF ws = <<>> THEN <<>>
    ELSE IF Len(ws) = 1 THEN ws[1]
    ELSE ws[1] \o <<" ">> \o JoinWords(Tail(ws))

EmailTexts == {JoinWords(ws) : ws \in UNION {[1..n -> EmailWords] : n \in 0..MaxEmails}}

EmailInit ==
    /\ pc = "email_start"
    /\ page_text \in EmailTexts
    /\ valid_emails = <<>>
    /\ UrlIdle
    /\ SocialIdle
    /\ EnrichIdle
    /\ BatchIdle
    /\ ScraperIdle

\* emails = self.extract_emails(page_text)
ExtractEmails ==
    /\ pc = "email_start"
    /\ valid_emails' = extract_emails(page_text)
    /\ pc' = "email_done"
    /\ UNCHANGED <<page_text, urlVars, socialVars, enrichVars, batchVars, scraperVars>>

EmailNext == ExtractEmails

SpecEmail == EmailInit /\ [][EmailNext]_vars

----------------------------------------------------------------------------
(* Email claims                                                            *)

EmailDone == pc = "email_done"

Returned == {valid_emails[j] : j \in 1..Len(valid_emails)}

CandidateSet == LET c == EmailCandidates(page_text) IN {c[j] : j \in 1..Len(c)}

\* the part before the @, in lower case
LocalPart(e) ==
    LET ats == {i \in 1..Len(e) : e[i] = "@"}
    IN  IF ats = {} THEN Lower(e) ELSE Lower(SubSeq(e, 1, SetMin(ats) - 1))

DomainPart(e) == EmailDomain(Lower(e))

InText(word) == Contains(page_text, word)

ExamplesAsStated ==
    /\ <<"a","d","m","i","n","@","e","x","a","m","p","l","e",".","c","o","m">> \notin Returned
    /\ <<"i","n","f","o","@","g","m","a","i","l",".","c","o","m">> \notin Returned
    /\ InText(<<"b","o","o","k","i","n","g","s","@","c","i","t","y","r","e","n","t","a","l","s",".","p","k">>) => <<"b","o","o","k","i","n","g","s","@","c","i","t","y","r","e","n","t","a","l","s",".","p","k">> \in Returned

\* C12 as stated: a candidate is rejected if and only if its domain is in the
\* denylist of generic and placeholder domains, or its local part starts with
\* admin or test, or the address starts with info@example or contact@example.
C12_RejectedIffListed ==
    EmailDone =>
        /\ \A c \in CandidateSet :
              c \notin Returned <=>
                 \/ DomainPart(c) \in email_invalid_domains
                 \/ StartsWith(LocalPart(c), <<"a","d","m","i","n">>)
                 \/ StartsWith(LocalPart(c), <<"t","e","s","t">>)
                 \/ StartsWith(Lower(c), <<"i","n","f","o","@","e","x","a","m","p","l","e">>)
                 \/ StartsWith(Lower(c), <<"c","o","n","t","a","c","t","@","e","x","a","m","p","l","e">>)
        /\ ExamplesAsStated

\* C12 amended: a candidate is rejected if and only if its domain is in the
\* denylist, or the address contains @example.com, @test.com or @google.com,
\* or its local part is exactly admin or test, or the address starts with
\* info@example or contact@example, all compared in lower case.
C12_RejectionRule ==
    EmailDone =>
        /\ \A c \in CandidateSet :
              c \notin Returned <=>
                 \/ DomainPart(c) \in email_invalid_domains
                 \/ \E d \in {<<"e","x","a","m","p","l","e",".","c","o","m">>, <<"t","e","s","t",".","c","o","m">>, <<"g","o","o","g","l","e",".","c","o","m">>} :
                       StartsWith(DomainPart(c), d)
                 \/ LocalPart(c) \in {<<"a","d","m","i","n">>, <<"t","e","s","t">>}
                 \/ StartsWith(Lower(c), <<"i","n","f","o","@","e","x","a","m","p","l","e">>)
                 \/ StartsWith(Lower(c), <<"c","o","n","t","a","c","t","@","e","x","a","m","p","l","e">>)
        /\ ExamplesAsStated

\* an address whose local part only starts with admin was returned, and one on
\* a subdomain-like example.com.pk was not
C12_Witness ==
    /\ EmailDone
    /\ <<"a","d","m","i","n","i","s","t","r","a","t","o","r","@","a","c","m","e",".","p","k">> \in Returned
    /\ <<"s","a","l","e","s","@","e","x","a","m","p","l","e",".","c","o","m",".","p","k">> \in CandidateSet \ Returned

\* the first place of the text where the address stands, whatever the case
FirstOccurrence(e) ==
    SetMin({i \in 1..Len(page_text) : StartsWithAt(Lower(page_text), Lower(e), i)})

NoRepeats ==
    \A j, k \in 1..Len(valid_emails) :
        Lower(valid_emails[j]) = Lower(valid_emails[k]) => j = k

\* C13: the list returned holds each accepted address at most once, compared
\* without regard to case, and the addresses stand in the order of their first
\* occurrence in the text.
C13_UniqueInFirstOccurrenceOrder ==
    EmailDone =>
        /\ NoRepeats
        /\ \A j, k \in 1..Len(valid_emails) :
              j < k => FirstOccurrence(valid_emails[j]) < FirstOccurrence(valid_emails[k])

\* the half about repeats: this one holds
C13_NoRepeats == EmailDone => NoRepeats

\* an address that stands later in the text was returned first
C13_Witness ==
    /\ EmailDone
    /\ page_text = RunOnAddress \o <<" ">> \o <<"s","a","l","e","s","@","a","c","m","e",".","p","k">>
    /\ valid_emails = <<<<"s","a","l","e","s","@","a","c","m","e",".","p","k">>, <<"i","n","f","o","@","a","c","m","e",".","p","k">>>>

----------------------------------------------------------------------------
(* Social-link claims                                                      *)

HttpStart(u) == StartsWith(u, <<"h","t","t","p">>)

\* the platform a link belongs to: the first one, in chain order, whose token
\* its lowercased href contains; 0 when it contains none
OwnPlatform(link) ==
    LET hit == {k \in 1..Len(PlatformOrder) : HasToken(Lower(link.href), PlatformOrder[k])}
    IN  IF hit = {} THEN 0 ELSE SetMin(hit)

\* the links that belong to platform number k and pass validation
Candidates(k) ==
    {i \in 1..Len(links) :
        OwnPlatform(links[i]) = k /\ is_valid_social_url(Lower(links[i].href), PlatformOrder[k])}

\* C8: each platform holds the URL of the first link, in iteration order, that
\* belongs to it and passes validation (nothing when there is none); a link
\* that belongs to an already filled platform is assigned to no other platform.
C8_FirstMatchPerPlatform ==
    pc = "social_done" =>
        \A k \in 1..Len(PlatformOrder) :
            LET p == PlatformOrder[k]
            IN  /\ Candidates(k) = {} => social_data[p] = <<>> /\ social_src[p] = 0
                /\ Candidates(k) # {} =>
                      /\ social_src[p] = SetMin(Candidates(k))
                      /\ social_data[p] = clean_social_url(Lower(links[social_src[p]].href), BaseUrl)
                /\ social_src[p] # 0 => OwnPlatform(links[social_src[p]]) = k

\* C9 as stated: a URL shorter than 30 characters is rejected unless it holds a
\* business indicator, which waives every length requirement; one of 30 to 39
\* characters without an indicator is rejected; one that matches no generic
\* pattern and is at least 40 characters long, or holds an indicator, is accepted.
C9_IndicatorWaivesLength ==
    pc = "url_done" =>
        /\ Len(url) < MinSocialUrlLen /\ ~has_business_indicator(url) => ~valid
        /\ Len(url) >= MinSocialUrlLen /\ Len(url) < StrictSocialUrlLen
              /\ ~has_business_indicator(url) => ~valid
        /\ HttpStart(url) /\ ~MatchesGenericPattern(url)
              /\ (Len(url) >= StrictSocialUrlLen \/ has_business_indicator(url)) => valid

\* C9 amended: a URL shorter than 30 characters is rejected, with or without a
\* business indicator; one shorter than 40 without an indicator is rejected;
\* one that starts with http, matches no generic pattern and is at least 40
\* characters long, or at least 30 with an indicator, is accepted; the two
\* examples of the specification come out as it says.
C9_LengthRule ==
    pc = "url_done" =>
        /\ Len(url) < MinSocialUrlLen => ~valid
        /\ Len(url) < StrictSocialUrlLen /\ ~has_business_indicator(url) => ~valid
        /\ HttpStart(url) /\ ~MatchesGenericPattern(url)
              /\ (\/ Len(url) >= StrictSocialUrlLen
                  \/ Len(url) >= MinSocialUrlLen /\ has_business_indicator(url)) => valid
        /\ url = ExampleAccepted => valid /\ cleaned = ExampleAccepted
        /\ url = ExampleRejected => ~valid

\* a profile URL under 30 characters that holds an indicator has been rejected
C9_Witness ==
    /\ pc = "url_done"
    /\ HttpStart(url)
    /\ ~MatchesGenericPattern(url)
    /\ has_business_indicator(url)
    /\ Len(url) < MinSocialUrlLen
    /\ ~valid

\* the href fails the scheme test or matches a generic-page pattern
RejectedHref(h) == ~HttpStart(h) \/ MatchesGenericPattern(h)

\* the value is a login, signup, help, ... or single-character-segment page
BoilerplatePage(v) ==
    \E p \in GenericHeadEnds(v) : \E t \in GenericTails : StartsWithAt(v, t, p)

PlatformByHrefOrText(link) ==
    LET hit == {k \in 1..Len(PlatformOrder) :
                   \/ HasToken(Lower(link.href), PlatformOrder[k])
                   \/ HasToken(Lower(link.text), PlatformOrder[k])}
    IN  IF hit = {} THEN 0 ELSE SetMin(hit)

\* C11: a link is attributed to a platform when its lowercased href or its
\* lowercased anchor text contains one of the platform's tokens; a link whose
\* anchor text names the platform and whose href passes validation is a
\* candidate, so its platform does not stay empty.
C11_AnchorTextAttributes ==
    pc = "social_done" =>
        \A i \in 1..Len(links) :
            LET k == PlatformByHrefOrText(links[i])
            IN  (k # 0 /\ is_valid_social_url(Lower(links[i].href), PlatformOrder[k]))
                    => social_data[PlatformOrder[k]] # <<>>

\* the same with the href alone: this one holds
HrefAttributes ==
    pc = "social_done" =>
        \A i \in 1..Len(links) :
            LET k == OwnPlatform(links[i])
            IN  (k # 0 /\ is_valid_social_url(Lower(links[i].href), PlatformOrder[k]))
                    => social_data[PlatformOrder[k]] # <<>>

\* a link named facebook by its anchor text alone was read and nothing was stored
C11_Witness ==
    /\ pc = "social_done"
    /\ links = <<AnchorOnly>>
    /\ social_data = EmptySocial

----------------------------------------------------------------------------
(* Single-business enrichment claims                                       *)

EnrichDone == pc = "enrich_done"

WebsiteOf(biz) == DictGet(biz, "website", JStr(<<>>))

\* the search platform itself and the major social domains
AggregatorDomains ==
    {<<"g","o","o","g","l","e",".","c","o","m">>, <<"f","a","c","e","b","o","o","k",".","c","o","m">>, <<"i","n","s","t","a","g","r","a","m",".","c","o","m">>, <<"t","w","i","t","t","e","r",".","c","o","m">>, <<"l","i","n","k","e","d","i","n",".","c","o","m">>, <<"y","o","u","t","u","b","e",".","c","o","m">>}

\* the website is an absolute URL whose host is on an aggregator domain
OnAggregator(w) ==
    /\ w.t = "str"
    /\ \E d \in AggregatorDomains : Contains(Lower(Netloc(w.v)), d)

\* the answer to the main fetch is not a 2xx page
MainNot2xx == site.main.exc # "none" \/ site.main.code < 200 \/ site.main.code >= 300

\* the answer to the main fetch is an exception or a 4xx / 5xx status
MainFailed == site.main.exc # "none" \/ (site.main.code >= 400 /\ site.main.code < 600)

\* the number of contact pages requested
ContactFetches == Len(outcome.fetches) - 1

\* the answer to the j-th contact fetch is not a 2xx page
ContactNot2xx(j) ==
    LET r == ContactResponse(site, j)
    IN  r.exc # "none" \/ r.code < 200 \/ r.code >= 300

\* the j-th contact page was read and holds an acceptable social link
ContactYields(j) ==
    LET r == ContactResponse(site, j)
    IN  /\ r.exc = "none"
        /\ AnySocial(extract_social_media(PageLinks(r.page), outcome.fetches[j + 1]))

SocialOf(biz) == [p \in Platforms |-> DictGet(biz, p, JStr(<<>>)).v]

\* C3: enrich never changes a field that was non-empty before the call; a
\* record whose contact fields are all known comes back unchanged when the
\* crawl finds nothing.
C3_NeverBlanksKnownFields ==
    EnrichDone /\ business.t = "obj" =>
        \A k \in DOMAIN business.v :
            Truthy(business.v[k]) =>
                /\ k \in DOMAIN outcome.business.v
                /\ outcome.business.v[k] = business.v[k]

\* C4: a business whose website is empty or on an aggregator domain causes no
\* fetch at all and is returned with every field unchanged.
C4_AggregatorSkipped ==
    EnrichDone /\ business.t = "obj"
               /\ (~Truthy(WebsiteOf(business)) \/ OnAggregator(WebsiteOf(business))) =>
        /\ ~outcome.raised
        /\ outcome.fetches = <<>>
        /\ outcome.business = business

\* a business with known contact fields and a facebook page as its website came back
C4_Witness ==
    /\ EnrichDone
    /\ business.t = "obj"
    /\ OnAggregator(WebsiteOf(business))
    /\ Truthy(DictGet(business, "email", JStr(<<>>)))
    /\ outcome.business = business
    /\ outcome.fetches = <<>>

\* C5 as stated: when the main fetch times out, cannot connect or answers with
\* a status that is not 2xx, enrich raises nothing, requests nothing more and
\* returns the record with its fields as they were.
C5_Non2xxLeavesRecord ==
    EnrichDone /\ outcome.fetches # <<>> /\ MainNot2xx =>
        /\ ~outcome.raised
        /\ Len(outcome.fetches) = 1
        /\ outcome.business = business

\* C5 amended: when the main fetch times out, cannot connect or answers with a
\* 4xx or 5xx status, enrich raises nothing, requests nothing more and returns
\* the record with its fields as they were.
C5_FailedFetchLeavesRecord ==
    EnrichDone /\ outcome.fetches # <<>> /\ MainFailed =>
        /\ ~outcome.raised
        /\ Len(outcome.fetches) = 1
        /\ outcome.business = business

\* the main page answered 404 with a body full of contact data: nothing was taken
C5_Witness ==
    /\ EnrichDone
    /\ outcome.fetches # <<>>
    /\ site.main = NotFoundPage
    /\ "email" \notin DOMAIN business.v
    /\ outcome.business = business

\* C6: contact pages are requested only when the main page gave no social
\* link; at most 5 are requested, in the order of their links on the main
\* page, and none after the first one that gives a social link.
C6_ContactCrawlBounded ==
    EnrichDone /\ outcome.fetches # <<>> =>
        LET w  == WebsiteOf(business).v
            cl == ContactLinks(site.main.page)
        IN  /\ outcome.fetches[1] = w
            /\ ContactFetches > 0 =>
                  /\ ~MainFailed
                  /\ ~AnySocial(extract_social_media(PageLinks(site.main.page), w))
            /\ ContactFetches <= 5
            /\ ContactFetches <= Len(cl)
            /\ \A j \in 1..ContactFetches : outcome.fetches[j + 1] = ContactUrl(w, cl[j])
            /\ \A j \in 1..(ContactFetches - 1) : ~ContactYields(j)

\* six candidate pages, none of the first five gave anything: the sixth was not requested
C6_Witness ==
    /\ EnrichDone
    /\ outcome.fetches # <<>>
    /\ Len(ContactLinks(site.main.page)) > 5
    /\ ContactFetches = 5
    /\ ~ContactYields(5)

\* C7: a contact page whose fetch times out, cannot connect or answers with a
\* status that is not 2xx contributes nothing; the crawl goes on to the next
\* candidate, and the email found on the main page stays in the result.
C7_FailedContactPageSkipped ==
    EnrichDone /\ outcome.fetches # <<>> /\ ContactFetches > 0 =>
        LET cl     == ContactLinks(site.main.page)
            emails == extract_emails(PageText(site.main.page))
        IN  \A j \in 1..ContactFetches :
                ContactNot2xx(j) =>
                    /\ j < ContactFetches \/ ContactFetches = 5 \/ ContactFetches = Len(cl)
                    /\ j = ContactFetches => ~AnySocial(SocialOf(outcome.business))
                    /\ emails # <<>> => outcome.business.v["email"] = JStr(emails[1])

----------------------------------------------------------------------------
(* The batch call                                                           *)

BatchDone == pc = "batch_responded"

Succeeded == response.status = 200 /\ response.body.success

\* every index of the input is the source of exactly one element of the list
ListedOnce(list) ==
    /\ Len(list) = Len(businesses)
    /\ \A i \in 1..Len(businesses) :
          Cardinality({j \in 1..Len(list) : list[j].src = i}) = 1

\* the enrichment of the i-th element did not come to a result: it raised, or
\* its main fetch failed
EnrichmentFailed(i) ==
    \/ futures[i].raised
    \/ /\ futures[i].state = "collected"
       /\ sites[i].main.exc # "none"
       /\ is_valid_url(WebsiteOf(businesses[i])) = "true"

\* every element whose enrichment failed is listed as it was given
FailedListedAsGiven(list) ==
    \A j \in 1..Len(list) :
       EnrichmentFailed(list[j].src) => list[j].business = businesses[list[j].src]

\* the list holds what the workers returned
ResultsListed(list) ==
    \A j \in 1..Len(list) :
       ~futures[list[j].src].raised => list[j].business = futures[list[j].src].result

\* C1: for any non-empty list given to the batch call, under every interleaving
\* of the pool workers, the returned list contains every input business exactly
\* once, in any order, and a business whose enrichment failed appears as its
\* original record.
C1_EveryBusinessOnce ==
    (BatchDone /\ businesses # <<>>) =>
        /\ response.status = 200
        /\ ListedOnce(response.body.businesses)
        /\ FailedListedAsGiven(response.body.businesses)

\* the same for a list whose elements are all JSON objects: this one holds
ObjectsListedOnce ==
    (BatchDone /\ businesses # <<>> /\ \A i \in 1..Len(businesses) : businesses[i].t = "obj") =>
        /\ Succeeded
        /\ ListedOnce(response.body.businesses)
        /\ FailedListedAsGiven(response.body.businesses)
        /\ ResultsListed(response.body.businesses)

\* a batch of objects answered out of order, one enriched and one failed
ObjectsListedOnce_Witness ==
    /\ BatchDone
    /\ Len(businesses) >= 2
    /\ \A i \in 1..Len(businesses) : businesses[i].t = "obj"
    /\ Succeeded
    /\ response.body.businesses[1].src # 1
    /\ \E i \in 1..Len(futures) : futures[i].raised
    /\ \E i \in 1..Len(futures) : ~futures[i].raised /\ futures[i].result # businesses[i]

\* C2: an exception raised while processing one business of the batch is
\* caught for that item only: the item is returned as it was given, the other
\* items are still processed, and any non-empty input is answered by a success
\* envelope that lists every input business, never by an error envelope.
C2_ItemErrorNeverFailsBatch ==
    (BatchDone /\ businesses # <<>>) =>
        /\ Succeeded
        /\ response.body.total_enriched = Len(businesses)
        /\ \A i \in 1..Len(businesses) :
              \E j \in 1..Len(response.body.businesses) :
                 /\ response.body.businesses[j].src = i
                 /\ response.body.businesses[j].business =
                       IF futures[i].raised THEN businesses[i] ELSE futures[i].result

\* the batch that is answered by an error envelope although one of its
\* elements is a business with a working site
ErrorEnvelopeForBatch ==
    /\ BatchDone
    /\ businesses # <<>>
    /\ response.status = 500
    /\ \E i \in 1..Len(businesses) : businesses[i].t = "obj" /\ ~futures[i].raised

----------------------------------------------------------------------------
(* fuzz.ratio: difflib.SequenceMatcher(None, s1, s2).ratio() in percent    *)

\* the length of the common run that starts at a[i] and b[j]
RECURSIVE RunLen(_, _, _, _, _, _)
RunLen(a, b, i, j, ahi, bhi) ==
    IF i > ahi \/ j > bhi THEN 0
    ELSE IF a[i] # b[j] THEN 0
    ELSE 1 + RunLen(a, b, i + 1, j + 1, ahi, bhi)

\* SequenceMatcher.find_longest_match on a[alo..ahi], b[blo..bhi]: the longest
\* common block, the one that starts earliest in a, and of those the one that
\* starts earliest in b; <<i, j, size>>
find_longest_match(a, b, alo, ahi, blo, bhi) ==
    LET sized == {<<i, j, RunLen(a, b, i, j, ahi, bhi)>> :
                     <<i, j>> \in {p \in (alo..ahi) \X (blo..bhi) : a[p[1]] = b[p[2]]}}
    IN  IF sized = {} THEN <<alo, blo, 0>>
        ELSE LET best == SetMax({m[3] : m \in sized})
                 i0   == SetMin({m[1] : m \in {n \in sized : n[3] = best}})
                 j0   == SetMin({m[2] : m \in {n \in sized : n[3] = best /\ n[1] = i0}})
             IN  <<i0, j0, best>>

\* the sum of the sizes of SequenceMatcher.get_matching_blocks()
RECURSIVE MatchedChars(_, _, _, _, _, _)
MatchedChars(a, b, alo, ahi, blo, bhi) ==
    IF alo > ahi \/ blo > bhi THEN 0
    ELSE LET m == find_longest_match(a, b, alo, ahi, blo, bhi)
         IN  IF m[3] = 0 THEN 0
             ELSE m[3] + MatchedChars(a, b, alo, m[1] - 1, blo, m[2] - 1)
                       + MatchedChars(a, b, m[1] + m[3], ahi, m[2] + m[3], bhi)

\* int(round(n / d)): Python rounds a half to the even neighbour
RoundHalfEven(n, d) ==
    LET q == n \div d
        r == n % d
    IN  IF 2 * r < d THEN q
        ELSE IF 2 * r > d THEN q + 1
        ELSE IF q % 2 = 0 THEN q ELSE q + 1

\* fuzz.ratio(s1, s2): 100 for equal strings, 0 when one is empty, else
\* int(round(100 * 2.0 * matches / (len(s1) + len(s2))))
fuzz_ratio(s1, s2) ==
    IF s1 = s2 THEN 100
    ELSE IF Len(s1) = 0 \/ Len(s2) = 0 THEN 0
    ELSE RoundHalfEven(200 * MatchedChars(s1, s2, 1, Len(s1), 1, Len(s2)), Len(s1) + Len(s2))

\* a variant that counts a ratio equal to the threshold as similar
is_similar_text_AtLeast(text1, text2, percent) == fuzz_ratio(text1, text2) >= percent

\* return fuzz.ratio(text1, text2) > (threshold * 100); percent is threshold * 100
is_similar_text(text1, text2, percent) == fuzz_ratio(text1, text2) > percent

----------------------------------------------------------------------------
(* AdvancedDataExtractor.classify_text_line                                *)

address_keywords ==
    {<<"s","t","r","e","e","t">>, <<"r","o","a","d">>, <<"b","l","o","c","k">>, <<"p","h","a","s","e">>, <<"s","e","c","t","o","r">>, <<"a","v","e","n","u","e">>, <<"c","o","l","o","n","y">>,
     <<"e","x","t","e","n","s","i","o","n">>, <<"m","a","r","k","e","t">>, <<"p","l","a","z","a">>, <<"b","u","i","l","d","i","n","g">>, <<"a","r","e","a">>, <<"t","o","w","n">>, <<"p","l","o","t">>,
     <<"l","a","n","e">>, <<"b","l","v","d">>, <<"b","o","u","l","e","v","a","r","d">>, <<"m","a","i","n">>, <<"m","a","l","l">>, <<"c","e","n","t","e","r">>, <<"s","q","u","a","r","e">>,
     <<"p","a","r","k">>, <<"g","a","r","d","e","n">>, <<"s","o","c","i","e","t","y">>, <<"s","c","h","e","m","e">>, <<"h","o","u","s","i","n","g">>, <<"c","o","m","m","e","r","c","i","a","l">>}

category_keywords ==
    {<<"a","g","e","n","c","y">>, <<"s","e","r","v","i","c","e">>, <<"c","o","m","p","a","n","y">>, <<"s","t","o","r","e">>, <<"s","h","o","p">>, <<"c","e","n","t","e","r">>, <<"r","e","n","t","a","l">>,
     <<"t","o","u","r">>, <<"o","f","f","i","c","e">>, <<"b","u","s","i","n","e","s","s">>, <<"e","n","t","e","r","p","r","i","s","e">>, <<"c","o","r","p","o","r","a","t","i","o","n">>, <<"f","i","r","m">>,
     <<"s","e","r","v","i","c","e","s">>, <<"s","o","l","u","t","i","o","n","s">>, <<"g","r","o","u","p">>, <<"a","s","s","o","c","i","a","t","e","s">>, <<"c","o","n","s","u","l","t","a","n","c","y">>}

CharAt(s, i) == IF i >= 1 /\ i <= Len(s) THEN s[i] ELSE ""

DigitAt(s, i) == CharAt(s, i) \in Digits

LetterAt(s, i) == CharAt(s, i) \in Letters

\* the index of the first character at or after i that is no whitespace
SkipSpace(s, i) == RunEnd(s, Whitespace, i)

\* re.search(r'\d+\.?\d*\s*(?:stars?|\(?\d+\)?)', line): a digit, an optional
\* dot, digits, whitespace, then "star" or a digit with an optional "(" before it
RatingPattern(s) ==
    \E p \in 1..Len(s) :
        /\ DigitAt(s, p)
        /\ \E q1 \in {p + 1} \cup (IF CharAt(s, p + 1) = "." THEN {p + 2} ELSE {}) :
           \E q2 \in q1..RunEnd(s, Digits, q1) :
           \E q3 \in q2..SkipSpace(s, q2) :
              \/ StartsWithAt(s, <<"s","t","a","r">>, q3)
              \/ DigitAt(s, q3)
              \/ (CharAt(s, q3) = "(" /\ DigitAt(s, q3 + 1))

\* sum(1 for keyword in keywords if keyword in line_lower)
KeywordScore(keywords, line_lower) == Cardinality({k \in keywords : Contains(line_lower, k)})

\* re.search(r'[A-Z]\d+[A-Z]*[\+\-]?\d*[A-Z]*|#\s*\w+|\d+[A-Z]?\s*[,-]\s*|plot\s*\d+|block\s*[A-Z]',
\*           line, re.I)
has_address_patterns(s) ==
    \/ \E i \in 1..Len(s) : LetterAt(s, i) /\ DigitAt(s, i + 1)
    \/ \E i \in 1..Len(s) : s[i] = "#" /\ IsWordAt(s, SkipSpace(s, i + 1))
    \/ \E i \in 1..Len(s) :
          /\ DigitAt(s, i)
          /\ \E q \in {i + 1} \cup (IF LetterAt(s, i + 1) THEN {i + 2} ELSE {}) :
                CharAt(s, SkipSpace(s, q)) \in {",", "-"}
    \/ \E i \in 1..Len(s) :
          StartsWithAt(Lower(s), <<"p","l","o","t">>, i) /\ DigitAt(s, SkipSpace(s, i + 4))
    \/ \E i \in 1..Len(s) :
          StartsWithAt(Lower(s), <<"b","l","o","c","k">>, i) /\ LetterAt(s, SkipSpace(s, i + 5))

\* word1\s+word2 somewhere in s
SpacedPair(s, w1, w2) ==
    \E i \in 1..Len(s) :
        /\ StartsWithAt(s, w1, i)
        /\ CharAt(s, i + Len(w1)) \in Whitespace
        /\ StartsWithAt(s, w2, SkipSpace(s, i + Len(w1)))

\* re.search(r'(car\s+rental|rental\s+car|agency|service|company|tour)', line_lower)
has_category_patterns(line_lower) ==
    \/ SpacedPair(line_lower, <<"c","a","r">>, <<"r","e","n","t","a","l">>)
    \/ SpacedPair(line_lower, <<"r","e","n","t","a","l">>, <<"c","a","r">>)
    \/ \E w \in {<<"a","g","e","n","c","y">>, <<"s","e","r","v","i","c","e">>, <<"c","o","m","p","a","n","y">>, <<"t","o","u","r">>} : Contains(line_lower, w)

DuplicatePercent == 80

LongLine == 15

PatternLine == 10

\* a variant in which equal scores count for the address
ScoresSayAddress_OrEqual(address_score, category_score) == address_score >= category_score

\* address_score > category_score
ScoresSayAddress(address_score, category_score) == address_score > category_score

\* the chain of lines 92-99
ClassifyByScores(s, line_lower) ==
    LET address_score  == KeywordScore(address_keywords, line_lower)
        category_score == KeywordScore(category_keywords, line_lower)
    IN  IF ScoresSayAddress(address_score, category_score)
              /\ (has_address_patterns(s) \/ Len(s) > LongLine)
        THEN "address"
        ELSE IF category_score > 0 \/ has_category_patterns(line_lower) THEN "category"
        ELSE IF has_address_patterns(s) /\ Len(s) > PatternLine THEN "address"
        ELSE "other"

classify_text_line(s, name) ==
    LET line_lower          == Strip(Lower(s))
        business_name_lower == Strip(Lower(name))
    IN  IF is_similar_text(line_lower, business_name_lower, DuplicatePercent) THEN "duplicate"
        ELSE IF RatingPattern(s) THEN "rating_review"
        ELSE ClassifyByScores(s, line_lower)

----------------------------------------------------------------------------
(* Inputs of the classification check                                      *)

MaxTrail == 1

BusinessNames == {<<"C","i","t","y"," ","C","a","r"," ","R","e","n","t","a","l">>, <<"A","u","t","o","D","r","i","v","e"," ","R","e","n","t","a","l","s">>, <<"M","a","i","n"," ","M","a","r","k","e","t"," ","P","l","a","z","a">>}

\* similarity to "city car rental": 100, 97, 81, 80, 79
NameLikeLines ==
    {<<"C","i","t","y"," ","C","a","r"," ","R","e","n","t","a","l">>, <<"c","i","t","y"," ","c","a","r"," ","r","e","n","t","a","l","s">>, <<"C","i","t","y"," ","C","a","r"," ","R","e","n","t","a","l"," ","L","a","h","o","r","e">>,
     <<"C","i","t","y"," ","C","a","r"," ","R","e","n","t"," ","L","a","h","o","r","e">>, <<"C","i","t","y"," ","C","a","r"," ","R","e","n","t","a","l"," ","S","e","r","v","i","c","e">>}

ClassifyLines ==
    NameLikeLines \cup
    {<<"4",".","5"," ","s","t","a","r","s">>, <<"4",".","5","(","1","2","0",")">>, <<"O","p","e","n"," ","2","4"," ","h","o","u","r","s">>, <<"R","a","t","e","d"," ","5"," ","S","t","a","r","s">>, <<"7"," ","s","t","a","r"," ","s","e","r","v","i","c","e">>,
     <<"P","l","o","t"," ","5",","," ","M","a","i","n"," ","B","o","u","l","e","v","a","r","d"," ","G","u","l","b","e","r","g">>, <<"M","a","i","n"," ","r","o","a","d">>, <<"M","a","i","n"," ","B","o","u","l","e","v","a","r","d"," ","G","u","l","b","e","r","g"," ","L","a","h","o","r","e">>,
     <<"M","a","r","k","e","t"," ","S","h","o","p">>, <<"S","h","o","p"," ","i","n"," ","L","i","b","e","r","t","y"," ","M","a","r","k","e","t"," ","P","l","a","z","a">>, <<"S","e","r","v","i","c","e"," ","c","e","n","t","e","r"," ","r","o","a","d">>,
     <<"C","a","r"," "," ","r","e","n","t","a","l">>, <<"R","e","n","t"," ","a"," ","c","a","r">>, <<"L","u","x","u","r","y"," ","t","o","u","r","s">>, <<"B","1","2"," ","G","u","l","b","e","r","g"," ","I","I","I">>, <<"B","1","2"," ","G","u","l","b">>, <<"#","4"," ","D","H","A">>, <<"S","u","i","t","e"," ","#"," ","4"," ","n","e","a","r"," ","D","H","A">>,
     <<"b","l","o","c","k"," ","C">>, <<"J","o","h","a","r"," ","T","o","w","n">>, <<"L","a","h","o","r","e">>, <<"1","2","-","F","e","r","o","z","e","p","u","r">>, <<"5","A"," ",","," ","G","a","r","d","e","n">>, <<>>}

\* the line followed by k spaces
Trailed(s, k) == s \o [i \in 1..k |-> " "]

ClassifyInit ==
    /\ pc = "classify_start"
    /\ \E s \in ClassifyLines, k \in 0..MaxTrail : line = Trailed(s, k)
    /\ business_name \in BusinessNames
    /\ classification = ""
    /\ UrlIdle
    /\ SocialIdle
    /\ EnrichIdle
    /\ BatchIdle
    /\ EmailIdle
    /\ BuildIdle
    /\ ScrapeIdle
    /\ ServiceIdle

\* classification = self.data_extractor.classify_text_line(line, business['name'])
Classify ==
    /\ pc = "classify_start"
    /\ classification' = classify_text_line(line, business_name)
    /\ pc' = "classify_done"
    /\ UNCHANGED <<line, business_name, buildVars, scrapeVars, serviceVars>>
    /\ UNCHANGED <<urlVars, socialVars, enrichVars, batchVars, emailVars>>

ClassifyNext == Classify

SpecClassify == ClassifyInit /\ [][ClassifyNext]_vars

----------------------------------------------------------------------------
(* Classification claims                                                   *)

ClassifyDone == pc = "classify_done"

LineLower == Strip(Lower(line))

NameLower == Strip(Lower(business_name))

\* the similarity 2 * matches / (len + len) of the two texts is at least percent / 100
SimilarityAtLeast(s1, s2, percent) ==
    IF s1 = s2 THEN TRUE
    ELSE IF Len(s1) = 0 \/ Len(s2) = 0 THEN percent <= 0
    ELSE 200 * MatchedChars(s1, s2, 1, Len(s1), 1, Len(s2)) >= percent * (Len(s1) + Len(s2))

\* C14 as stated: a line whose similarity to the business name is 0.8 or more,
\* exactly 0.8 included, is classified duplicate, whatever keywords or
\* patterns it holds.
C14_AtLeast80IsDuplicate ==
    ClassifyDone =>
        (SimilarityAtLeast(LineLower, NameLower, DuplicatePercent) => classification = "duplicate")

\* C14 amended: a line is classified duplicate, whatever keywords or patterns
\* it holds, exactly when its similarity to the business name, as the percentage
\* rounded to the nearest integer, is greater than 80; at exactly 80 it is not.
C14_Above80IsDuplicate ==
    ClassifyDone =>
        (fuzz_ratio(LineLower, NameLower) > DuplicatePercent <=> classification = "duplicate")

\* a line that is not the name itself, holds a category keyword and is over 80
\* percent similar has been classified duplicate
C14_Witness ==
    /\ ClassifyDone
    /\ fuzz_ratio(LineLower, NameLower) \in (DuplicatePercent + 1)..99
    /\ KeywordScore(category_keywords, LineLower) > 0
    /\ classification = "duplicate"

AddressScore == KeywordScore(address_keywords, LineLower)

CategoryScore == KeywordScore(category_keywords, LineLower)

ScoresWinAddress ==
    AddressScore > CategoryScore /\ (has_address_patterns(line) \/ Len(line) > LongLine)

SaysCategory == CategoryScore > 0 \/ has_category_patterns(LineLower)

\* C15: a line that is no duplicate is rating_review when it matches the rating
\* pattern; else address when address_score > category_score and it has a
\* structural pattern or is longer than 15; else category when category_score
\* > 0 or it holds a category phrase; else address when it has a structural
\* pattern and is longer than 10; else other.  Equal scores above zero give
\* category, never address.
C15_DecisionOrder ==
    (ClassifyDone /\ classification # "duplicate") =>
        /\ RatingPattern(line) => classification = "rating_review"
        /\ (~RatingPattern(line) /\ ScoresWinAddress) => classification = "address"
        /\ (~RatingPattern(line) /\ ~ScoresWinAddress /\ SaysCategory)
              => classification = "category"
        /\ (~RatingPattern(line) /\ ~ScoresWinAddress /\ ~SaysCategory
              /\ has_address_patterns(line) /\ Len(line) > PatternLine)
              => classification = "address"
        /\ (~RatingPattern(line) /\ ~ScoresWinAddress /\ ~SaysCategory
              /\ ~(has_address_patterns(line) /\ Len(line) > PatternLine))
              => classification = "other"
        /\ (~RatingPattern(line) /\ AddressScore = CategoryScore /\ AddressScore > 0)
              => classification = "category"

\* a long line with as many address keywords as category keywords came out as category
C15_Witness ==
    /\ ClassifyDone
    /\ AddressScore = CategoryScore
    /\ AddressScore > 0
    /\ Len(line) > LongLine
    /\ classification = "category"

----------------------------------------------------------------------------
(* Regular expressions of src/main.py.  A pattern is a tree: a character   *)
(* class, a sequence, an alternation (leftmost alternative first) or a     *)
(* greedy repetition; hi = -1 is no upper limit.  Matching backtracks in   *)
(* the order of Python's re.                                               *)

Class(cs) == [k |-> "set", cs |-> cs]

Cat(rs) == [k |-> "seq", rs |-> rs]

Alt(rs) == [k |-> "alt", rs |-> rs]

Rep(r, lo, hi) == [k |-> "rep", r |-> r, lo |-> lo, hi |-> hi]

Opt(r) == Rep(r, 0, 1)

Star(r) == Rep(r, 0, -1)

Plus(r) == Rep(r, 1, -1)

\* a literal text; ci: letters match in either case (re.I), s is in lower case
Lit(s) == [k |-> "lit", s |-> s, ci |-> FALSE]

LitI(s) == [k |-> "lit", s |-> s, ci |-> TRUE]

LitAt(h, t, p) ==
    /\ p + Len(h.s) - 1 <= Len(t)
    /\ \A n \in 1..Len(h.s) :
          \/ t[p + n - 1] = h.s[n]
          \/ h.ci /\ LowerChar(t[p + n - 1]) = h.s[n]

\* how many characters of the class cs stand at t[p], counted up to hi (-1: all)
RunOf(cs, t, p, hi) ==
    LET stop == {n \in p..Len(t) : t[n] \notin cs}
        run  == IF stop = {} THEN Len(t) - p + 1 ELSE SetMin(stop) - p
    IN  IF hi >= 0 /\ run > hi THEN hi ELSE run

\* One step of the matcher on evaluated arguments: the end (index after the
\* last character) of the match of the patterns todo, one after the other,
\* starting at t[p]; 0 when there is none.  A repetition takes as many as it
\* can and gives back one at a time.
RECURSIVE MatchEnd(_, _, _)
MatchStep(todo, t, p) ==
    IF Len(todo) = 0 THEN p
    ELSE LET h == Head(todo)
             rest == Tail(todo)
         IN  CASE h.k = "set" ->
                    IF p <= Len(t) /\ t[p] \in h.cs THEN MatchEnd(rest, t, p + 1) ELSE 0
               [] h.k = "lit" ->
                    IF LitAt(h, t, p) THEN MatchEnd(rest, t, p + Len(h.s)) ELSE 0
               [] h.k = "seq" -> MatchEnd(h.rs \o rest, t, p)
               [] h.k = "alt" ->
                    CHOOSE e \in {IF first # 0 \/ Len(h.rs) = 1 THEN first
                                  ELSE MatchEnd(<<Alt(Tail(h.rs))>> \o rest, t, p) :
                                  first \in {MatchEnd(<<h.rs[1]>> \o rest, t, p)}} : TRUE
               [] h.k = "rep" /\ h.r.k = "set" ->
                    CHOOSE e \in {IF good = {} THEN 0
                                  ELSE (CHOOSE q \in good : \A o \in good : o[1] <= q[1])[2] :
                                  good \in {{q \in {<<n, MatchEnd(rest, t, p + n)>> :
                                                       n \in h.lo..RunOf(h.r.cs, t, p, h.hi)} :
                                               q[2] # 0}}} : TRUE
               [] h.k = "rep" /\ h.r.k # "set" ->
                    CHOOSE e \in {IF more # 0 THEN more
                                  ELSE IF h.lo = 0 THEN MatchEnd(rest, t, p) ELSE 0 :
                                  more \in {IF h.hi = 0 THEN 0
                                            ELSE MatchEnd(<<h.r, Rep(h.r,
                                                                     IF h.lo > 0 THEN h.lo - 1 ELSE 0,
                                                                     IF h.hi > 0 THEN h.hi - 1 ELSE h.hi)>>
                                                          \o rest, t, p)}} : TRUE

\* every argument is evaluated once, then the step is taken
MatchEnd(todo, t, p) ==
    CHOOSE e \in {MatchStep(todo1, t, p1) : todo1 \in {todo}, p1 \in {p}} : TRUE

\* re.search(r, t) looking from index from on: <<start, end>> of the leftmost
\* match, <<0, 0>> when there is none
re_search_from(r, t, from) ==
    LET starts == {s \in from..(Len(t) + 1) : MatchEnd(<<r>>, t, s) # 0}
    IN  IF starts = {} THEN <<0, 0>>
        ELSE CHOOSE m \in {<<s, MatchEnd(<<r>>, t, s)>> : s \in {SetMin(starts)}} : TRUE

re_search(r, t) == re_search_from(r, t, 1)

re_matches(r, t) == \E s \in 1..(Len(t) + 1) : MatchEnd(<<r>>, t, s) # 0

\* re.findall(r, t) for a pattern whose only group is the whole pattern
RECURSIVE re_findall_from(_, _, _)
re_findall_from(r, t, from) ==
    CHOOSE found \in
        {IF m[1] = 0 THEN <<>>
         ELSE <<SubSeq(t, m[1], m[2] - 1)>>
                 \o re_findall_from(r, t, IF m[2] = m[1] THEN m[2] + 1 ELSE m[2]) :
         m \in {re_search_from(r, t, from)}} : TRUE

re_findall(r, t) == re_findall_from(r, t, 1)

\* re.sub(r, '', t) anchored at the start of t (the pattern begins with ^)
re_strip_prefix(r, t) ==
    CHOOSE cut \in {IF e = 0 THEN t ELSE SubSeq(t, e, Len(t)) : e \in {MatchEnd(<<r>>, t, 1)}} : TRUE

\* re.sub(r'\s+', ' ', t): left to right, a run of whitespace becomes one space
CollapseSpace(t) ==
    LET keep == {n \in 1..Len(t) : t[n] \notin Whitespace \/ n = 1 \/ t[n - 1] \notin Whitespace}
        at(k) == CHOOSE n \in keep : Cardinality({m \in keep : m < n}) = k - 1
    IN  SubSeq([k \in 1..Cardinality(keep) |->
                  IF t[at(k)] \in Whitespace THEN " " ELSE t[at(k)]],
               1, Cardinality(keep))

\* t.split(sep) for a one-character separator
Split(t, sep) ==
    LET cuts == {n \in 1..Len(t) : t[n] = sep}
        edge(k) == IF k = 0 THEN 0
                   ELSE IF k > Cardinality(cuts) THEN Len(t) + 1
                   ELSE CHOOSE n \in cuts : Cardinality({m \in cuts : m < n}) = k - 1
    IN  SubSeq([k \in 1..(Cardinality(cuts) + 1) |-> SubSeq(t, edge(k - 1) + 1, edge(k) - 1)],
               1, Cardinality(cuts) + 1)

\* s[:n]
Prefix(s, n) == SubSeq(s, 1, IF Len(s) < n THEN Len(s) ELSE n)

----------------------------------------------------------------------------
(* AdvancedDataExtractor: phones, websites, cleaning, review lines         *)

Digit == Class(Digits)

Sep == Opt(Class(Whitespace \cup {"-"}))

DigitsN(n) == Rep(Digit, n, n)

\* self.phone_patterns, in order
phone_patterns ==
    << Cat(<<Lit(<<"+","9","2">>), Sep, DigitsN(3), Sep, DigitsN(7)>>),
       Cat(<<DigitsN(4), Sep, DigitsN(7)>>),
       Cat(<<Lit(<<"+","9","2">>), Sep, DigitsN(2), Sep, DigitsN(8)>>),
       Cat(<<DigitsN(3), Sep, DigitsN(7)>>),
       Cat(<<Opt(Class({"+"})), Rep(Digit, 2, 4), Sep, DigitsN(3), Sep, Rep(Digit, 4, 7)>>) >>

\* the concatenation of the sequences of a sequence
RECURSIVE Flatten(_)
Flatten(ss) ==
    CHOOSE all \in {IF Len(s) = 0 THEN <<>> ELSE Head(s) \o Flatten(Tail(s)) : s \in {ss}} : TRUE

PhoneChars == Digits \cup Whitespace \cup {"+", "-", "(", ")"}

KeepChars(s, cs) == SelectSeq(s, LAMBDA c : c \in cs)

\* re.sub(r'[^\d\+\-\s\(\)]', '', phone).strip()
CleanPhone(phone) == Strip(KeepChars(phone, PhoneChars))

MinPhoneDigits == 7

extract_phone_numbers(text) ==
    LET phones == Flatten([n \in 1..Len(phone_patterns) |-> re_findall(phone_patterns[n], text)])
        clean  == [n \in 1..Len(phones) |-> CleanPhone(phones[n])]
    IN  SelectSeq(SubSeq(clean, 1, Len(clean)),
                  LAMBDA p : Len(KeepChars(p, Digits)) >= MinPhoneDigits)

HostChars == Class(WordChars \cup {".", "-"})

\* (?:\.[a-z]{2,})+ under re.IGNORECASE
DomainTail == Plus(Cat(<<Class({"."}), Rep(Class(Letters), 2, -1)>>))

\* (?:/[\w\.-]*)*
PathTail == Star(Cat(<<Class({"/"}), Star(HostChars)>>))

\* self.url_patterns, in order, matched with re.IGNORECASE
url_patterns ==
    << Cat(<<LitI(<<"h","t","t","p">>), Opt(LitI(<<"s">>)), Lit(<<":","/","/">>), Plus(HostChars), DomainTail, PathTail>>),
       Cat(<<LitI(<<"w","w","w">>), Lit(<<".">>), Plus(HostChars), DomainTail, PathTail>>),
       Cat(<<Plus(HostChars), Lit(<<".">>),
             Alt(<<LitI(<<"c","o","m">>), LitI(<<"n","e","t">>), LitI(<<"o","r","g">>), LitI(<<"p","k">>), LitI(<<"c","o",".","u","k">>),
                   LitI(<<"i","n","f","o">>), LitI(<<"b","i","z">>)>>),
             PathTail>>) >>

\* lines 127-130: matches naming google.com or maps are left out, the others
\* get https:// in front unless they start with http
WebsitesOf(matches) ==
    LET kept == SelectSeq(matches,
                          LAMBDA w : ~Contains(w, <<"g","o","o","g","l","e",".","c","o","m">>) /\ ~Contains(w, <<"m","a","p","s">>))
    IN  SubSeq([n \in 1..Len(kept) |->
                  IF StartsWith(kept[n], <<"h","t","t","p">>) THEN kept[n] ELSE <<"h","t","t","p","s",":","/","/">> \o kept[n]],
               1, Len(kept))

extract_websites(text) ==
    Flatten([n \in 1..Len(url_patterns) |-> WebsitesOf(re_findall(url_patterns[n], text))])

\* characters outside ASCII are written by name: middot, bullet, blackstar, whitestar
Bullet == Class({"middot", "bullet"})

Spaces == Star(Class(Whitespace))

\* ^(car rental agency|agency|service|company)\s*[middot bullet]\s* under re.I
LabelPrefix ==
    Cat(<<Alt(<<LitI(<<"c","a","r"," ","r","e","n","t","a","l"," ","a","g","e","n","c","y">>), LitI(<<"a","g","e","n","c","y">>), LitI(<<"s","e","r","v","i","c","e">>), LitI(<<"c","o","m","p","a","n","y">>)>>),
          Spaces, Bullet, Spaces>>)

MinAddressIn == 5

MinAddressOut == 10

MaxAddressLen == 200

\* AdvancedDataExtractor.clean_address
clean_address(address, name) ==
    IF Len(address) < MinAddressIn THEN <<>>
    ELSE IF is_similar_text(Lower(address), Lower(name), DuplicatePercent) THEN <<>>
    ELSE LET cut == Strip(CollapseSpace(re_strip_prefix(LabelPrefix, address)))
         IN  IF Len(cut) > MinAddressOut THEN Prefix(cut, MaxAddressLen) ELSE <<>>

DefaultCategory == <<"C","a","r"," ","R","e","n","t","a","l"," ","A","g","e","n","c","y">>

\* (car rental agency|rental agency|agency|service|company|store|shop|center|rental|tour|office)
CategoryType ==
    Alt(<<LitI(<<"c","a","r"," ","r","e","n","t","a","l"," ","a","g","e","n","c","y">>), LitI(<<"r","e","n","t","a","l"," ","a","g","e","n","c","y">>), LitI(<<"a","g","e","n","c","y">>), LitI(<<"s","e","r","v","i","c","e">>),
          LitI(<<"c","o","m","p","a","n","y">>), LitI(<<"s","t","o","r","e">>), LitI(<<"s","h","o","p">>), LitI(<<"c","e","n","t","e","r">>), LitI(<<"r","e","n","t","a","l">>),
          LitI(<<"t","o","u","r">>), LitI(<<"o","f","f","i","c","e">>)>>)

UpperChar(c) ==
    IF c \in LowerLetters THEN CHOOSE u \in UpperLetters : LowerChar(u) = c ELSE c

\* str.title(): a letter after a letter is lower case, any other letter upper case
Title(s) ==
    SubSeq([n \in 1..Len(s) |->
              IF n > 1 /\ s[n - 1] \in Letters THEN LowerChar(s[n]) ELSE UpperChar(s[n])],
           1, Len(s))

MaxCategoryLen == 50

\* AdvancedDataExtractor.clean_category
extractor_clean_category(category, name) ==
    IF Len(category) = 0 THEN DefaultCategory
    ELSE LET m == re_search(CategoryType, category)
         IN  IF m[1] # 0 THEN Title(SubSeq(category, m[1], m[2] - 1))
             ELSE LET clean_cat == Strip(CollapseSpace(re_strip_prefix(LabelPrefix, category)))
                  IN  IF Len(clean_cat) > 0 THEN Prefix(clean_cat, MaxCategoryLen)
                      ELSE DefaultCategory

review_keywords ==
    {<<"c","l","e","a","n">>, <<"w","e","l","l","-","m","a","i","n","t","a","i","n","e","d">>, <<"e","x","c","e","e","d","e","d"," ","m","y"," ","e","x","p","e","c","t","a","t","i","o","n","s">>, <<"r","e","c","o","m","m","e","n","d">>, <<"e","x","p","e","r","i","e","n","c","e">>,
     <<"s","e","r","v","i","c","e">>, <<"d","r","i","v","e","r">>, <<"c","o","m","f","o","r","t","a","b","l","e">>, <<"e","x","c","e","l","l","e","n","t">>, <<"f","r","i","e","n","d","l","y">>, <<"p","u","n","c","t","u","a","l">>, <<"s","a","t","i","s","f","i","e","d">>,
     <<"t","h","a","n","k"," ","y","o","u">>, <<"a","m","a","z","i","n","g">>, <<"b","e","s","t">>, <<"w","o","r","s","t">>, <<"a","w","e","s","o","m","e">>, <<"g","r","e","a","t">>, <<"b","a","d">>, <<"g","o","o","d">>, <<"h","e","l","p","f","u","l">>,
     <<"s","u","p","p","o","r","t">>, <<"c","u","s","t","o","m","e","r">>, <<"r","e","v","i","e","w">>, <<"t","e","s","t","i","m","o","n","i","a","l">>}

\* what word_tokenize cuts a line at: whitespace and the punctuation marks
\* that always stand alone
TokenBreaks == Whitespace \cup {",", ";", ":", "!", "?", "(", ")"}

\* the alphabetic tokens of a lower-case line
AlphaWords(line_lower) ==
    LET toks == re_findall(Plus(Class((WordChars \cup {".", "-", "'", "/", "#", "+", "middot", "bullet"})
                                        \ TokenBreaks)), line_lower)
    IN  SelectSeq(toks, LAMBDA w : \A n \in 1..Len(w) : w[n] \in Letters)

EndsWith(s, p) == Len(s) >= Len(p) /\ SubSeq(s, Len(s) - Len(p) + 1, Len(s)) = p

\* AdvancedDataExtractor.is_review_line; no English stop word ends in ed, ful
\* or ive, so the stop-word filter does not change the count
is_review_line(s) ==
    LET line_lower == Lower(s)
    IN  \/ \E word \in review_keywords : Contains(line_lower, word)
        \/ Len(SelectSeq(AlphaWords(line_lower),
                         LAMBDA w : EndsWith(w, <<"e","d">>) \/ EndsWith(w, <<"f","u","l">>) \/ EndsWith(w, <<"i","v","e">>))) > 1

----------------------------------------------------------------------------
(* GoogleMapsScraper.advanced_extract_single_business                      *)
(* An element is [text, stale, address_tags, category_tags, hrefs,         *)
(* strings]: its visible text, whether it has gone stale, the texts of the *)
(* tags the address and the category selectors find, in the order found,  *)
(* the href of its links and its text nodes.                               *)

\* line 1442: the stripped non-empty lines of the text
LinesOf(element_text) ==
    LET raw == Split(element_text, "\n")
    IN  SelectSeq(SubSeq([n \in 1..Len(raw) |-> Strip(raw[n])], 1, Len(raw)),
                  LAMBDA l : Len(l) > 0)

MaxNameLen == 100

First(s) == IF Len(s) = 0 THEN <<>> ELSE s[1]

\* the element of a set of one; with {e(x) : x \in {v}} it names a value v once
\* for e to use many times
Only(S) == CHOOSE x \in S : TRUE

\* (\d+\.?\d*) of the rating pattern; what follows it in the pattern may be empty
RatingNumber == Cat(<<Plus(Digit), Opt(Class({"."})), Star(Digit)>>)

\* the digits without the zeros in front
DropZeros(ds) == SubSeq(ds, FindAny(ds, Digits \ {"0"}, 1), Len(ds))

\* 1.0 <= float(g) <= 5.0 for g matching \d+\.?\d*
RatingInRange(g) ==
    LET dot   == FindAny(g, {"."}, 1)
        whole == DropZeros(SubSeq(g, 1, dot - 1))
        frac  == SubSeq(g, dot + 1, Len(g))
    IN  /\ Len(whole) = 1
        /\ \/ whole[1] \in {"1", "2", "3", "4"}
           \/ whole[1] = "5" /\ \A n \in 1..Len(frac) : frac[n] = "0"

\* lines 1449-1455: the number of the first line whose first number is a rating
\* the number a line offers as rating, empty when it has none in range
RatingIn(l) ==
    CHOOSE g \in {IF m[1] # 0 /\ RatingInRange(SubSeq(l, m[1], m[2] - 1))
                  THEN SubSeq(l, m[1], m[2] - 1) ELSE <<>> :
                  m \in {re_search(RatingNumber, l)}} : TRUE

\* the first non-empty x[n], empty when there is none
FirstFound(xs) == First(SelectSeq(xs, LAMBDA x : Len(x) > 0))

RatingOf(lines) == FirstFound(SubSeq([n \in 1..Len(lines) |-> RatingIn(lines[n])], 1, Len(lines)))

MaxReviewDigits == 6

ReviewDigits == Rep(Digit, 1, MaxReviewDigits)

\* the digits from s[at] on, six at most
DigitsAt(s, at) ==
    LET stop == {n \in at..Len(s) : s[n] \notin Digits}
        last == IF stop = {} THEN Len(s) ELSE SetMin(stop) - 1
    IN  SubSeq(s, at, IF last - at + 1 > MaxReviewDigits THEN at + MaxReviewDigits - 1 ELSE last)

\* lines 1458-1468 for one line: the group of the first review pattern found in
\* the line without its commas
ReviewCountIn(l) ==
    LET s  == SelectSeq(l, LAMBDA c : c # ",")
        m1 == re_search(Cat(<<Lit(<<"(">>), ReviewDigits, Lit(<<")">>)>>), s)
        m2 == re_search(Cat(<<ReviewDigits, Spaces, LitI(<<"r","e","v","i","e","w">>)>>), s)
        m3 == re_search(Cat(<<ReviewDigits, Spaces, LitI(<<"r","a","t","i","n","g">>)>>), s)
    IN  IF m1[1] # 0 THEN SubSeq(s, m1[1] + 1, m1[2] - 2)
        ELSE IF m2[1] # 0 THEN DigitsAt(s, m2[1])
        ELSE IF m3[1] # 0 THEN DigitsAt(s, m3[1])
        ELSE <<>>

ReviewCountOf(lines) ==
    FirstFound(SubSeq([n \in 1..Len(lines) |-> ReviewCountIn(lines[n])], 1, Len(lines)))

NotReview(texts) == SelectSeq(texts, LAMBDA x : Len(x) > 0 /\ ~is_review_line(x))

\* lines 1496-1505: the lines after the first that are no review lines and
\* that classify_text_line gives the label
LinesLabelled(lines, name, label) ==
    SelectSeq(Tail(lines),
              LAMBDA l : ~is_review_line(l) /\ classify_text_line(l, name) = label)

\* lines 1489-1505
AddressCandidates(element, lines, name) ==
    NotReview(element.address_tags) \o LinesLabelled(lines, name, "address")

\* lines 1496-1505 and 1511-1517
CategoryCandidates(element, lines, name) ==
    LinesLabelled(lines, name, "category") \o NotReview(element.category_tags)

\* a variant that keeps the last of the longest
MaxByLen_Last(xs) ==
    xs[SetMax({n \in 1..Len(xs) : \A k \in 1..Len(xs) : Len(xs[k]) <= Len(xs[n])})]

\* max(xs, key=len): the first of the longest
MaxByLen(xs) ==
    xs[SetMin({n \in 1..Len(xs) : \A k \in 1..Len(xs) : Len(xs[k]) <= Len(xs[n])})]

\* lines 1530-1535
WebsiteFromLinks(hrefs) ==
    First(SelectSeq(hrefs, LAMBDA h : /\ Len(h) > 0
                                      /\ Contains(h, <<"h","t","t","p">>)
                                      /\ ~Contains(h, <<"g","o","o","g","l","e",".","c","o","m">>)
                                      /\ ~Contains(h, <<"m","a","p","s">>)))

\* lines 1539-1544
PhoneFromStrings(strings) ==
    LET shaped == SelectSeq(strings,
                     LAMBDA x : re_matches(Cat(<<Rep(Digit, 3, 4), Sep, DigitsN(7)>>), x))
        found  == SelectSeq(shaped, LAMBDA x : Len(extract_phone_numbers(x)) > 0)
    IN  IF Len(found) = 0 THEN <<>> ELSE extract_phone_numbers(found[1])[1]

\* lines 1563-1568
QualityScore(b) ==
    Cardinality({f \in {"name", "phone", "address", "website", "rating"} : Len(b[f]) > 0})

MinQuality == 2

\* the name i read at line 1524 is bound neither in the function nor in the module
DebugIndexBound_Yes == TRUE

DebugIndexBound == FALSE

\* lines 1480-1522 on the lines and the name found: address and category
ChosenFields(element, lines, name) ==
    Only({[address  |-> IF Len(addrs) > 0 THEN clean_address(MaxByLen(addrs), name) ELSE <<>>,
           category |-> IF Len(cats) > 0 THEN extractor_clean_category(cats[1], name)
                        ELSE DefaultCategory] :
          addrs \in {AddressCandidates(element, lines, name)},
          cats \in {CategoryCandidates(element, lines, name)}})

NameOf(lines) == IF Len(lines) > 0 THEN Prefix(lines[1], MaxNameLen) ELSE <<>>

\* the dictionary business as lines 1444-1522 leave it
BusinessAtDebug(element) ==
    Only({Only({[name   |-> NameOf(lines),
           rating       |-> RatingOf(lines),
           review_count |-> ReviewCountOf(lines),
           address      |-> chosen.address,
           category     |-> chosen.category,
           phone        |-> First(extract_phone_numbers(element.text)),
           website      |-> First(extract_websites(element.text))] :
                chosen \in {ChosenFields(element, lines, NameOf(lines))}}) :
          lines \in {LinesOf(element.text)}})

\* lines 1528-1560 on that dictionary
BusinessCleaned(element, b) ==
    LET name    == Strip(CollapseSpace(b.name))
        address == Strip(CollapseSpace(b.address))
        phone   == IF Len(b.phone) > 0 THEN b.phone ELSE PhoneFromStrings(element.strings)
    IN  [b EXCEPT !.website  = IF Len(b.website) > 0 THEN b.website
                               ELSE WebsiteFromLinks(element.hrefs),
                  !.name     = name,
                  !.address  = IF is_similar_text(Lower(address), Lower(name), DuplicatePercent)
                               THEN <<>> ELSE address,
                  !.category = Strip(CollapseSpace(b.category)),
                  !.phone    = CleanPhone(phone)]

\* what the function returns: value is "business" or "None"; business is the
\* dictionary as it stood when the function ended
advanced_extract_single_business(element) ==
    Only({IF ~DebugIndexBound
          THEN [value |-> "None", business |-> b, error |-> "NameError"]
          ELSE Only({[value    |-> IF QualityScore(c) >= MinQuality THEN "business" ELSE "None",
                      business |-> c,
                      error    |-> ""] : c \in {BusinessCleaned(element, b)}}) :
          b \in {BusinessAtDebug(element)}})

NameSimilarPercent == 85

PhoneSimilarPercent == 90

\* GoogleMapsScraper.is_duplicate_business
is_duplicate_business(b, existing_businesses) ==
    \E n \in 1..Len(existing_businesses) :
        LET existing == existing_businesses[n]
        IN  \/ fuzz_ratio(Lower(b.name), Lower(existing.name)) > NameSimilarPercent
            \/ /\ Len(b.phone) > 0
               /\ Len(existing.phone) > 0
               /\ fuzz_ratio(b.phone, existing.phone) > PhoneSimilarPercent

----------------------------------------------------------------------------
(* GoogleMapsScraper.advanced_extract_business_data over the elements found *)

Element(text, address_tags, category_tags, hrefs, strings) ==
    [text |-> text, stale |-> FALSE, address_tags |-> address_tags,
     category_tags |-> category_tags, hrefs |-> hrefs, strings |-> strings]

TextOnly(text) == Element(text, <<>>, <<>>, <<>>, <<>>)

NameOnlyCard == TextOnly(<<"A","u","t","o","D","r","i","v","e"," ","R","e","n","t","a","l","s">>)

RatedSiteCard == TextOnly(<<"A","u","t","o","D","r","i","v","e"," ","R","e","n","t","a","l","s","\n","4",".","8"," ","(","1",",","2","0","3",")","\n","w","w","w",".","a","u","t","o","d","r","i","v","e",".","p","k">>)

\* two address candidates of the same length, the tag found before the line
TiedAddressCard ==
    Element(<<"C","i","t","y"," ","C","a","r"," ","R","e","n","t","a","l","s","\n","4",".","5"," ","s","t","a","r","s"," ","(","1","2","0",")","\n","C","a","r"," ","r","e","n","t","a","l"," ","a","g","e","n","c","y","\n","M","a","i","n"," ","B","o","u","l","e","v","a","r","d"," ","G","u","l","b","e","r","g"," ","L","a","h","o","r","e","\n","0","3","0","0"," ","1","2","3","4","5","6","7">>,
            <<<<"M","a","i","n"," ","B","o","u","l","e","v","a","r","d"," ","G","u","l","b","e","r","g",","," ","L","a","h","o","r">>>>, <<>>, <<>>, <<>>)

\* two category candidates, the line found before the tag
TwoCategoryCard ==
    Element(<<"R","o","y","a","l"," ","T","o","u","r","s","\n","L","u","x","u","r","y"," ","t","o","u","r","s","\n","S","h","o","p"," ","4",","," ","L","i","b","e","r","t","y"," ","M","a","r","k","e","t",","," ","L","a","h","o","r","e","\n","C","o","m","p","a","n","y"," ","middot"," ","M","a","i","n"," ","M","a","r","k","e","t"," ","P","l","a","z","a"," ","L","a","h","o","r","e">>,
            <<>>, <<<<"T","r","a","n","s","p","o","r","t">>>>, <<<<"h","t","t","p","s",":","/","/","m","a","p","s",".","g","o","o","g","l","e",".","c","o","m","/","x">>, <<"h","t","t","p","s",":","/","/","r","o","y","a","l",".","p","k">>>>, <<>>)

ShortNameCard ==
    Element(<<"A","b","\n","5",".","0","\n","1","2"," ","r","e","v","i","e","w","s","\n","O","p","e","n"," ","2","4"," ","h","o","u","r","s">>, <<>>, <<<<"S","T","O","R","E">>>>, <<<<"h","t","t","p","s",":","/","/","a","b",".","p","k">>>>,
            <<<<"C","a","l","l">>, <<"0","3","0","0"," ","7","6","5","4","3","2","1">>>>)

StaleCard == [TextOnly(<<"G","o","n","e"," ","C","a","r"," ","R","e","n","t","a","l","\n","0","3","0","0"," ","1","1","1","2","2","2","3">>) EXCEPT !.stale = TRUE]

ElementPool ==
    {NameOnlyCard, RatedSiteCard, TiedAddressCard, TwoCategoryCard, ShortNameCard, StaleCard}

MaxElements == 2

\* the lists of up to MaxElements different elements
RECURSIVE ElementLists(_)
ElementLists(n) ==
    IF n = 0 THEN {<<>>}
    ELSE LET shorter == ElementLists(n - 1)
         IN  shorter \cup {Append(es, e) : es \in {x \in shorter : Len(x) = n - 1},
                                           e \in ElementPool}

Distinct(es) == \A m, n \in 1..Len(es) : m # n => es[m] # es[n]

\* line 1351: unique_elements[:50]
MaxProcessed == 50

MinElementText == 5

MinNameLen == 2

\* safe_get_text: the stripped text, empty once the element is stale
safe_get_text(element) == IF element.stale THEN <<>> ELSE Strip(element.text)

EmptyBusiness ==
    [name |-> <<>>, rating |-> <<>>, review_count |-> <<>>, address |-> <<>>,
     category |-> <<>>, phone |-> <<>>, website |-> <<>>]

Skipped == [value |-> "skipped", business |-> EmptyBusiness, error |-> ""]

BuildInit ==
    /\ pc = "build_start"
    /\ unique_elements \in {es \in ElementLists(MaxElements) : Distinct(es)}
    /\ built = <<>>
    /\ adv_businesses = <<>>
    /\ UrlIdle /\ SocialIdle /\ EnrichIdle /\ BatchIdle /\ EmailIdle
    /\ ClassifyIdle /\ ScrapeIdle /\ ServiceIdle

ToProcess ==
    IF Len(unique_elements) < MaxProcessed THEN Len(unique_elements) ELSE MaxProcessed

\* lines 1357-1369 for the text of an element and what the builder made of it
AfterElement(element_text, made) ==
    IF Len(Strip(element_text)) < MinElementText
    THEN /\ built' = Append(built, Skipped)
         /\ UNCHANGED adv_businesses
    ELSE /\ built' = Append(built, made)
         /\ adv_businesses' =
               IF /\ made.value = "business"
                  /\ Len(made.business.name) > MinNameLen
                  /\ ~is_duplicate_business(made.business, adv_businesses)
               THEN Append(adv_businesses, made.business)
               ELSE adv_businesses

\* lines 1351-1376: one turn of the loop
ExtractElement ==
    /\ pc = "build_start"
    /\ Len(built) < ToProcess
    /\ \E element \in {unique_elements[Len(built) + 1]} :
       \E element_text \in {safe_get_text(element)} :
       \E made \in {IF Len(Strip(element_text)) < MinElementText THEN Skipped
                     ELSE advanced_extract_single_business([element EXCEPT !.text = element_text])} :
          AfterElement(element_text, made)
    /\ UNCHANGED <<pc, unique_elements>>
    /\ UNCHANGED <<urlVars, socialVars, enrichVars, batchVars, emailVars, classifyVars, scrapeVars, serviceVars>>

\* lines 1346-1348 and 1378: return businesses
ReturnBusinesses ==
    /\ pc = "build_start"
    /\ Len(built) = ToProcess
    /\ pc' = "build_done"
    /\ UNCHANGED <<unique_elements, built, adv_businesses>>
    /\ UNCHANGED <<urlVars, socialVars, enrichVars, batchVars, emailVars, classifyVars, scrapeVars, serviceVars>>

BuildNext == ExtractElement \/ ReturnBusinesses

SpecBuild == BuildInit /\ [][BuildNext]_vars

----------------------------------------------------------------------------
(* Record builder claims                                                   *)

BuildDone == pc = "build_done"

Processed(n) == built[n].value # "skipped"

\* the n-th element as the builder was given it
ElementSeen(n) == [unique_elements[n] EXCEPT !.text = safe_get_text(unique_elements[n])]

NameSeen(n) == NameOf(LinesOf(ElementSeen(n).text))

AddressesSeen(n) == AddressCandidates(ElementSeen(n), LinesOf(ElementSeen(n).text), NameSeen(n))

CategoriesSeen(n) == CategoryCandidates(ElementSeen(n), LinesOf(ElementSeen(n).text), NameSeen(n))

\* the fields lines 1444-1560 extract from the n-th element
FieldsSeen(n) == BusinessCleaned(ElementSeen(n), BusinessAtDebug(ElementSeen(n)))

\* xs[k] is as long as any and longer than all before it
FirstLongest(xs, k) ==
    /\ k \in 1..Len(xs)
    /\ \A j \in 1..Len(xs) : Len(xs[j]) <= Len(xs[k])
    /\ \A j \in 1..(k - 1) : Len(xs[j]) < Len(xs[k])

\* the address of the record when candidate a is chosen (lines 1509, 1550-1554)
AddressFrom(a, name) ==
    LET tidy == Strip(CollapseSpace(clean_address(a, name)))
    IN  IF is_similar_text(Lower(tidy), Lower(Strip(CollapseSpace(name))), DuplicatePercent)
        THEN <<>> ELSE tidy

CategoryFrom(c, name) == Strip(CollapseSpace(extractor_clean_category(c, name)))

\* the address and the category of record b come from the first of the longest
\* address candidates and from the first category candidate, or the default
ChosenAsStated(n, b, finished) ==
    /\ Len(AddressesSeen(n)) > 0 =>
          \E k \in 1..Len(AddressesSeen(n)) :
              /\ FirstLongest(AddressesSeen(n), k)
              /\ b.address = IF finished THEN AddressFrom(AddressesSeen(n)[k], NameSeen(n))
                             ELSE clean_address(AddressesSeen(n)[k], NameSeen(n))
    /\ Len(CategoriesSeen(n)) > 0 =>
          b.category = IF finished THEN CategoryFrom(CategoriesSeen(n)[1], NameSeen(n))
                       ELSE extractor_clean_category(CategoriesSeen(n)[1], NameSeen(n))
    /\ Len(CategoriesSeen(n)) = 0 => b.category = DefaultCategory

\* C16: for a listing whose fields pass the quality gate the builder returns a
\* record; its address is the longest address candidate among tag and line
\* candidates (of equally long ones the first found), its category is the
\* first category candidate, or the default label when there is no candidate.
C16_ChoosesLongestAddressFirstCategory ==
    BuildDone =>
        \A n \in 1..Len(built) :
            (Processed(n) /\ QualityScore(FieldsSeen(n)) >= MinQuality) =>
                /\ built[n].value = "business"
                /\ ChosenAsStated(n, built[n].business, TRUE)

\* the dictionary the builder had filled when it stopped holds the choice as stated
ChoiceAtFailure ==
    BuildDone =>
        \A n \in 1..Len(built) :
            (Processed(n) /\ built[n].error = "NameError") =>
                ChosenAsStated(n, built[n].business, FALSE)

\* a listing with two longest address candidates of equal length and fields
\* that pass the gate was processed, and the builder returned None for it
C16_Witness ==
    /\ BuildDone
    /\ \E n \in 1..Len(built) :
          /\ Processed(n)
          /\ QualityScore(FieldsSeen(n)) >= MinQuality
          /\ \E j, k \in 1..Len(AddressesSeen(n)) :
                j < k /\ FirstLongest(AddressesSeen(n), j)
                      /\ Len(AddressesSeen(n)[k]) = Len(AddressesSeen(n)[j])
          /\ built[n].value = "None"
          /\ built[n].error = "NameError"

\* the builder returned a record for the n-th element and the list holds it
Accepted(n) ==
    /\ built[n].value = "business"
    /\ \E m \in 1..Len(adv_businesses) : adv_businesses[m] = built[n].business

----------------------------------------------------------------------------
(* GoogleMapsScraper.scrape_businesses                                     *)
(* The page is [browser, cards, fallback, panels].  A card is [name,       *)
(* rating, reviews, text, address_tag, category_tag]: the first non-empty  *)
(* text its name, rating and review selectors find, its innerText, and the *)
(* first non-empty text its address and category selectors find.  A panel  *)
(* is what opening the element of that index shows: [kind, website,        *)
(* address] with kind shown, click_error or page_error.                    *)

\* /(?:\+92|0)?\s?3\d{2}\s?\d{7}|(?:\+92|0)?\s?\d{2,4}\s?\d{7,8}/
CardPhonePattern ==
    LET prefix == Opt(Alt(<<Lit(<<"+","9","2">>), Lit(<<"0">>)>>))
        space  == Opt(Class(Whitespace))
    IN  Alt(<<Cat(<<prefix, space, Lit(<<"3">>), DigitsN(2), space, DigitsN(7)>>),
              Cat(<<prefix, space, Rep(Digit, 2, 4), space, Rep(Digit, 7, 8)>>)>>)

\* allText.match(phoneRegex): the first match, trimmed, or ''
CardPhone(text) == Strip(First(re_findall(CardPhonePattern, text)))

categoryKeywords ==
    {<<"r","e","n","t","a","l">>, <<"a","g","e","n","c","y">>, <<"s","e","r","v","i","c","e">>, <<"t","o","u","r","s">>, <<"c","a","r">>, <<"l","u","x","u","r","y">>, <<"t","r","a","n","s","p","o","r","t">>, <<"v","e","h","i","c","l","e">>}

addressKeywords ==
    {<<"s","t","r","e","e","t">>, <<"b","l","o","c","k">>, <<"p","h","a","s","e">>, <<"d","h","a">>, <<"o","f","f","i","c","e">>, <<"b","u","i","l","d","i","n","g">>, <<"s","e","c","t","o","r">>, <<"a","r","e","a">>}

HasAny(s, words) == \E w \in words : Contains(s, w)

\* the test of the first branch of the loop over textLines, category not yet set
IsCategoryLine(l) == HasAny(Lower(l), categoryKeywords) /\ ~HasAny(Lower(l), addressKeywords)

\* the test of the second branch, address not yet set
IsAddressLine(l) ==
    /\ HasAny(Lower(l), addressKeywords) \/ \E n \in 1..Len(l) : l[n] \in Digits
    /\ ~Contains(Lower(l), <<"h","o","u","r">>)
    /\ ~Contains(Lower(l), <<"s","t","a","r">>)

\* the loop over textLines: <<category, address>>; a line taken as category
\* is not looked at for the address
RECURSIVE LineFields(_, _, _)
LineFields(lines, category, address) ==
    IF Len(lines) = 0 THEN <<category, address>>
    ELSE IF Len(category) = 0 /\ IsCategoryLine(lines[1])
         THEN LineFields(Tail(lines), lines[1], address)
    ELSE IF Len(address) = 0 /\ IsAddressLine(lines[1])
         THEN LineFields(Tail(lines), category, lines[1])
    ELSE LineFields(Tail(lines), category, address)

\* name.toLowerCase().replace(/[^a-z0-9]/g, '')
NameKey(name) == KeepChars(Lower(name), LowerLetters \cup Digits)

\* the duplicate test against processedNames
NameProcessed(name, processedNames) ==
    \E existingName \in processedNames :
        Lower(name) = Lower(existingName) \/ NameKey(name) = NameKey(existingName)

MinCardName == 2

\* the object pushed for a card of the first strategy
CardRecord(card, index) ==
    LET fields   == LineFields(LinesOf(card.text), <<>>, <<>>)
        category == IF Len(fields[1]) > 0 THEN fields[1]
                    ELSE IF Len(card.category_tag) > 0 THEN card.category_tag
                    ELSE DefaultCategory
        address  == IF Len(fields[2]) > 0 THEN fields[2] ELSE card.address_tag
    IN  [name |-> card.name, rating |-> card.rating, reviewCount |-> card.reviews,
         phone |-> CardPhone(card.text), category |-> category, address |-> address,
         elementIndex |-> index]

\* the object pushed for a card of the fallback strategy
FallbackRecord(card, elementIndex) ==
    [name |-> card.name, rating |-> <<>>, reviewCount |-> <<>>,
     phone |-> CardPhone(card.text), category |-> DefaultCategory, address |-> <<>>,
     elementIndex |-> elementIndex]

\* businessCards.forEach from card n on: <<businesses, processedNames>>
RECURSIVE CardsFrom(_, _, _, _)
CardsFrom(cards, n, businesses_js, processedNames) ==
    IF n > Len(cards) THEN <<businesses_js, processedNames>>
    ELSE IF Len(cards[n].name) = 0 \/ NameProcessed(cards[n].name, processedNames)
         THEN CardsFrom(cards, n + 1, businesses_js, processedNames)
    ELSE CardsFrom(cards, n + 1,
                   IF Len(cards[n].name) > MinCardName
                   THEN Append(businesses_js, CardRecord(cards[n], n - 1))
                   ELSE businesses_js,
                   processedNames \cup {cards[n].name})

\* fallbackCards.forEach from card n on
RECURSIVE FallbackFrom(_, _, _, _)
FallbackFrom(cards, n, businesses_js, processedNames) ==
    IF n > Len(cards) THEN businesses_js
    ELSE IF Len(cards[n].name) > MinCardName /\ cards[n].name \notin processedNames
         THEN FallbackFrom(cards, n + 1,
                           Append(businesses_js,
                                  FallbackRecord(cards[n], Len(businesses_js) + n - 1)),
                           processedNames \cup {cards[n].name})
    ELSE FallbackFrom(cards, n + 1, businesses_js, processedNames)

FewBusinesses == 15

\* the script of lines 530-723
EvaluateCards(cards, fallback) ==
    LET first == CardsFrom(cards, 1, <<>>, {})
    IN  IF Len(first[1]) < FewBusinesses
        THEN FallbackFrom(fallback, 1, first[1], first[2])
        ELSE first[1]

\* GoogleMapsScraper.clean_rating
clean_rating(rating) ==
    LET m == re_search(RatingNumber, rating)
    IN  IF m[1] = 0 THEN <<>> ELSE SubSeq(rating, m[1], m[2] - 1)

\* GoogleMapsScraper.clean_review_count: group 1 of \(?(\d+(?:,\d+)?)\)?
clean_review_count(review_count) ==
    LET m == re_search(Cat(<<Plus(Digit), Opt(Cat(<<Lit(<<",">>), Plus(Digit)>>))>>), review_count)
    IN  IF m[1] = 0 THEN <<>> ELSE SubSeq(review_count, m[1], m[2] - 1)

\* GoogleMapsScraper.clean_category
scraper_clean_category(category) ==
    IF Len(category) = 0 THEN DefaultCategory
    ELSE Strip(SubSeq(category, 1, FindAny(category, {"middot"}, 1) - 1))

\* GoogleMapsScraper.clean_phone
clean_phone(phone) ==
    LET space == Opt(Class(Whitespace))
        m == re_search(Alt(<<Cat(<<Opt(Lit(<<"+">>)), Lit(<<"9","2">>), space, DigitsN(3), space, DigitsN(7)>>),
                             Cat(<<DigitsN(4), space, DigitsN(7)>>)>>), phone)
    IN  IF m[1] = 0 THEN Strip(phone) ELSE Strip(SubSeq(phone, m[1], m[2] - 1))

website_invalid_domains == {<<"g","o","o","g","l","e",".","c","o","m">>, <<"m","a","p","s",".","g","o","o","g","l","e",".","c","o","m">>, <<"f","a","c","e","b","o","o","k",".","c","o","m">>, <<"i","n","s","t","a","g","r","a","m",".","c","o","m">>}

\* GoogleMapsScraper.clean_website
clean_website(website) ==
    IF Len(website) = 0 THEN <<>>
    ELSE IF HasAny(Lower(website), website_invalid_domains) THEN <<>>
    ELSE RStrip(IF StartsWith(website, <<"h","t","t","p">>) THEN website ELSE <<"h","t","t","p","s",":","/","/">> \o website, "/")

\* lines 899-919, without the fields that repeat the request
CleanedBusiness(business_data, website, enhanced_address) ==
    [name         |-> business_data.name,
     rating       |-> clean_rating(business_data.rating),
     review_count |-> clean_review_count(business_data.reviewCount),
     address      |-> IF Len(enhanced_address) > 0 THEN enhanced_address
                      ELSE business_data.address,
     category     |-> scraper_clean_category(business_data.category),
     phone        |-> clean_phone(business_data.phone),
     website      |-> clean_website(website),
     email        |-> <<>>]

MinValidName == 2

\* a variant that asks for a name only
is_valid_business_NameOnly(b) == Len(b.name) > 0 /\ Len(b.name) > MinValidName

\* GoogleMapsScraper.is_valid_business
is_valid_business(b) ==
    /\ Len(b.name) > 0
    /\ Len(b.name) > MinValidName
    /\ Len(b.address) > 0 \/ Len(b.phone) > 0

\* a variant that puts a kept record in front of the ones kept before
RECURSIVE DedupFrom_Prepend(_, _, _, _)
DedupFrom_Prepend(bs, n, unique, seen_names) ==
    IF n > Len(bs) THEN unique
    ELSE LET name_lower == Strip(Lower(bs[n].name))
         IN  IF \/ name_lower \in seen_names
                \/ \E existing_name \in seen_names :
                      is_similar_text(name_lower, existing_name, NameSimilarPercent)
             THEN DedupFrom_Prepend(bs, n + 1, unique, seen_names)
             ELSE DedupFrom_Prepend(bs, n + 1, <<bs[n]>> \o unique, seen_names \cup {name_lower})

\* a variant that compares a record with the record just before it only
RECURSIVE DedupFrom_Previous(_, _, _, _)
DedupFrom_Previous(bs, n, unique, seen_names) ==
    IF n > Len(bs) THEN unique
    ELSE LET name_lower == Strip(Lower(bs[n].name))
         IN  IF \/ name_lower \in seen_names
                \/ \E existing_name \in seen_names :
                      is_similar_text(name_lower, existing_name, NameSimilarPercent)
             THEN DedupFrom_Previous(bs, n + 1, unique, {name_lower})
             ELSE DedupFrom_Previous(bs, n + 1, Append(unique, bs[n]), {name_lower})

\* GoogleMapsScraper.deduplicate_businesses from record n on
RECURSIVE DedupFrom(_, _, _, _)
DedupFrom(bs, n, unique, seen_names) ==
    IF n > Len(bs) THEN unique
    ELSE LET name_lower == Strip(Lower(bs[n].name))
         IN  IF \/ name_lower \in seen_names
                \/ \E existing_name \in seen_names :
                      is_similar_text(name_lower, existing_name, NameSimilarPercent)
             THEN DedupFrom(bs, n + 1, unique, seen_names)
             ELSE DedupFrom(bs, n + 1, Append(unique, bs[n]), seen_names \cup {name_lower})

deduplicate_businesses(bs) == DedupFrom(bs, 1, <<>>, {})

\* the default of max_results
max_results == 30

----------------------------------------------------------------------------
(* GoogleMapsScraper.scrape_businesses as a state machine                  *)

Panel(kind, website, address) == [kind |-> kind, website |-> website, address |-> address]

\* a result card with the panel that a click on it opens
Card(name, text, address_tag, category_tag, panel) ==
    [name |-> name, rating |-> <<>>, reviews |-> <<>>, text |-> text,
     address_tag |-> address_tag, category_tag |-> category_tag, panel |-> panel]

CityRentalCard ==
    [Card(<<"C","i","t","y"," ","C","a","r"," ","R","e","n","t","a","l">>, <<"C","i","t","y"," ","C","a","r"," ","R","e","n","t","a","l","\n","4",".","5","(","1","2","0",")","\n","0","3","0","0"," ","1","2","3","4","5","6","7">>, <<>>, <<>>,
          Panel("shown", <<"h","t","t","p","s",":","/","/","c","i","t","y","c","a","r",".","p","k","/">>, <<"1","2"," ","M","a","i","n"," ","B","o","u","l","e","v","a","r","d",","," ","G","u","l","b","e","r","g">>))
     EXCEPT !.rating = <<"4",".","5">>, !.reviews = <<"(","1","2","0",")">>]

CityRentalsCard ==
    Card(<<"C","i","t","y"," ","C","a","r"," ","R","e","n","t","a","l","s">>, <<"C","i","t","y"," ","C","a","r"," ","R","e","n","t","a","l","s","\n","0","3","0","0"," ","1","2","3","4","5","6","7">>, <<>>, <<>>,
         Panel("click_error", <<>>, <<>>))

JoharMotorsCard ==
    Card(<<"J","o","h","a","r"," ","T","o","w","n"," ","M","o","t","o","r","s">>, <<"J","o","h","a","r"," ","T","o","w","n"," ","M","o","t","o","r","s","\n","0","3","0","0"," ","1","2","3","4","5","6","7">>, <<>>, <<"S","h","o","w","r","o","o","m">>,
         Panel("shown", <<"h","t","t","p","s",":","/","/","f","a","c","e","b","o","o","k",".","c","o","m","/","j","o","h","a","r","t","o","w","n">>, <<>>))

RoyalToursCard ==
    Card(<<"R","o","y","a","l"," ","T","o","u","r","s">>, <<"R","o","y","a","l"," ","T","o","u","r","s","\n","O","p","e","n"," ","2","4"," ","h","o","u","r","s">>, <<>>, <<>>,
         Panel("click_error", <<>>, <<>>))

ShortNameListing ==
    Card(<<"A","b">>, <<"A","b","\n","0","3","0","0"," ","7","6","5","4","3","2","1">>, <<>>, <<>>, Panel("shown", <<>>, <<>>))

PhaseMotorsCard ==
    Card(<<"P","h","a","s","e"," ","5"," ","M","o","t","o","r","s">>, <<"P","h","a","s","e"," ","5"," ","M","o","t","o","r","s","\n","O","p","e","n"," ","2","4"," ","h","o","u","r","s">>, <<>>, <<>>,
         Panel("shown", <<>>, <<>>))

CardPool ==
    {CityRentalCard, CityRentalsCard, JoharMotorsCard, RoyalToursCard, ShortNameListing,
     PhaseMotorsCard}

\* what the fallback selectors find besides the cards
MetroCard ==
    Card(<<"M","e","t","r","o"," ","R","e","n","t"," ","A"," ","C","a","r">>, <<"M","e","t","r","o"," ","R","e","n","t"," ","A"," ","C","a","r","\n","0","4","2"," ","3","5","7","6","1","2","3","4">>, <<>>, <<>>,
         Panel("shown", <<>>, <<>>))

MaxCards == 2

CardLists(n) == UNION {[1..m -> CardPool] : m \in 1..n}

ScrapeInit ==
    /\ pc = "scrape_start"
    /\ \E cards \in CardLists(MaxCards), fallback \in {<<>>, <<MetroCard>>} :
          maps_page = [cards |-> cards, fallback |-> fallback]
    /\ businesses_data = <<>>
    /\ processed = 0
    /\ final_businesses = <<>>
    /\ unique_businesses = <<>>
    /\ scrape_result = <<>>
    /\ UrlIdle /\ SocialIdle /\ EnrichIdle /\ BatchIdle /\ EmailIdle
    /\ ClassifyIdle /\ BuildIdle /\ ServiceIdle

\* lines 947-949: an exception of the browser outside the loop over the listings
BrowserFails ==
    /\ pc \in {"scrape_start", "scrape_loop"}
    /\ pc = "scrape_loop" => processed = Len(Prefix(businesses_data, max_results))
    /\ pc' = "scrape_failed"
    /\ scrape_result' = [businesses |-> <<>>, error |-> "browser"]
    /\ UNCHANGED <<maps_page, businesses_data, processed, final_businesses, unique_businesses>>
    /\ UNCHANGED <<urlVars, socialVars, enrichVars, batchVars, emailVars, classifyVars, buildVars, serviceVars>>

\* lines 430-729: the page is opened, scrolled and read
EvaluatePage ==
    /\ pc = "scrape_start"
    /\ pc' = "scrape_loop"
    /\ businesses_data' = EvaluateCards(maps_page.cards, maps_page.fallback)
    /\ UNCHANGED <<maps_page, processed, final_businesses, unique_businesses, scrape_result>>
    /\ UNCHANGED <<urlVars, socialVars, enrichVars, batchVars, emailVars, classifyVars, buildVars, serviceVars>>

\* lines 734-877: <<website, enhanced_address>> for a listing
DetailsOf(business_data) ==
    IF business_data.elementIndex < Len(maps_page.cards)
    THEN LET shown == maps_page.cards[business_data.elementIndex + 1].panel
         IN  IF shown.kind = "shown" THEN <<shown.website, shown.address>>
             ELSE <<<<>>, business_data.address>>
    ELSE <<<<>>, business_data.address>>

\* lines 731-925: one turn of the loop
ProcessBusiness ==
    /\ pc = "scrape_loop"
    /\ processed < Len(Prefix(businesses_data, max_results))
    /\ processed' = processed + 1
    /\ \E business_data \in {businesses_data[processed + 1]} :
       \E details \in {DetailsOf(business_data)} :
       \E cleaned_business \in {CleanedBusiness(business_data, details[1], details[2])} :
          final_businesses' =
              IF is_valid_business(cleaned_business)
              THEN Append(final_businesses, cleaned_business)
              ELSE final_businesses
    /\ UNCHANGED <<pc, maps_page, businesses_data, unique_businesses, scrape_result>>
    /\ UNCHANGED <<urlVars, socialVars, enrichVars, batchVars, emailVars, classifyVars, buildVars, serviceVars>>

\* lines 927-929: the turn of the loop ends in an exception
ProcessingFails ==
    /\ pc = "scrape_loop"
    /\ processed < Len(Prefix(businesses_data, max_results))
    /\ processed' = processed + 1
    /\ UNCHANGED <<pc, maps_page, businesses_data, final_businesses, unique_businesses,
                   scrape_result>>
    /\ UNCHANGED <<urlVars, socialVars, enrichVars, batchVars, emailVars, classifyVars, buildVars, serviceVars>>

\* lines 931-945
ReturnResult ==
    /\ pc = "scrape_loop"
    /\ processed = Len(Prefix(businesses_data, max_results))
    /\ pc' = "scrape_done"
    /\ \E deduplicated \in {deduplicate_businesses(final_businesses)} :
          /\ unique_businesses' = deduplicated
          /\ scrape_result' = [businesses |-> deduplicated, total_found |-> Len(deduplicated)]
    /\ UNCHANGED <<maps_page, businesses_data, processed, final_businesses>>
    /\ UNCHANGED <<urlVars, socialVars, enrichVars, batchVars, emailVars, classifyVars, buildVars, serviceVars>>

ScrapeNext ==
    \/ BrowserFails
    \/ EvaluatePage
    \/ ProcessBusiness
    \/ ProcessingFails
    \/ ReturnResult

SpecScrape == ScrapeInit /\ [][ScrapeNext]_vars

----------------------------------------------------------------------------
(* Claims about scrape_businesses                                          *)

ScrapeDone == pc = "scrape_done"

ScrapeReturned == pc \in {"scrape_done", "scrape_failed"}

\* a name and an address or a phone, none of them empty
HasNameAndContact(b) == Len(b.name) > 0 /\ (Len(b.address) > 0 \/ Len(b.phone) > 0)

\* the cleaned record of the listing the loop meets in its turn n
CleanedOf(n) ==
    Only({CleanedBusiness(businesses_data[n], details[1], details[2]) :
              details \in {DetailsOf(businesses_data[n])}})

\* the cleaned records of all the listings read from the page
AllCleaned == SubSeq([n \in 1..Len(businesses_data) |-> CleanedOf(n)], 1, Len(businesses_data))

\* C18: every record handed to deduplicate_businesses, and every record of a
\* returned result, has a non-empty name and a non-empty address or phone; a
\* listing that fails this is left out before deduplication, and a result
\* returned after the loop carries no error whatever was left out.
C18_OnlyValidRecordsReachDedup ==
    /\ \A n \in 1..Len(final_businesses) :
          /\ HasNameAndContact(final_businesses[n])
          /\ \E m \in 1..processed : final_businesses[n] = CleanedOf(m)
    /\ \A n \in 1..Len(unique_businesses) : HasNameAndContact(unique_businesses[n])
    /\ ScrapeReturned =>
          \A n \in 1..Len(scrape_result.businesses) :
              HasNameAndContact(scrape_result.businesses[n])
    /\ ScrapeDone =>
          /\ "error" \notin DOMAIN scrape_result
          /\ scrape_result.businesses = unique_businesses
          /\ Len(final_businesses) <= processed

\* a page whose listing Royal Tours has neither address nor phone was read to
\* the end: that listing is the only one missing from the records handed on
C18_Witness ==
    /\ ScrapeDone
    /\ "error" \notin DOMAIN scrape_result
    /\ \E n \in 1..Len(businesses_data) :
          /\ businesses_data[n].name = <<"R","o","y","a","l"," ","T","o","u","r","s">>
          /\ ~HasNameAndContact(CleanedOf(n))
    /\ Len(final_businesses) > 0
    /\ final_businesses = SelectSeq(AllCleaned, HasNameAndContact)

\* the similarity of a field and the name, letter case apart, is 0.8 or more
SimilarToName(field, name) == SimilarityAtLeast(Lower(field), Lower(name), DuplicatePercent)

FieldsUnlikeName(b) == ~SimilarToName(b.address, b.name) /\ ~SimilarToName(b.category, b.name)

\* C19 as stated: in every record the pipeline produces, neither the address
\* nor the category has similarity 0.8 or more to the name of the record.
C19_FieldsNeverSimilarToName ==
    /\ \A n \in 1..Len(final_businesses) : FieldsUnlikeName(final_businesses[n])
    /\ \A n \in 1..Len(unique_businesses) : FieldsUnlikeName(unique_businesses[n])
    /\ ScrapeReturned =>
          \A n \in 1..Len(scrape_result.businesses) :
              FieldsUnlikeName(scrape_result.businesses[n])

\* a result was returned with a record that has an address and a category
C19_Witness ==
    /\ ScrapeDone
    /\ \E n \in 1..Len(scrape_result.businesses) :
          /\ Len(scrape_result.businesses[n].address) > 0
          /\ Len(scrape_result.businesses[n].category) > 0

\* the returned record of City Car Rental has the name as its category, the
\* one of Phase 5 Motors has the name as its address
NameReturnedAsField ==
    /\ ScrapeDone
    /\ \E n \in 1..Len(scrape_result.businesses) :
          /\ scrape_result.businesses[n].name = <<"C","i","t","y"," ","C","a","r"," ","R","e","n","t","a","l">>
          /\ scrape_result.businesses[n].category = <<"C","i","t","y"," ","C","a","r"," ","R","e","n","t","a","l">>
    /\ \E n \in 1..Len(scrape_result.businesses) :
          /\ scrape_result.businesses[n].name = <<"P","h","a","s","e"," ","5"," ","M","o","t","o","r","s">>
          /\ scrape_result.businesses[n].address = <<"P","h","a","s","e"," ","5"," ","M","o","t","o","r","s">>

\* the rule as stated: the record is dropped when, for some record accepted
\* before it, the normalized names are equal, or the similarity of the names
\* is 0.85 or more, or both have a phone and the similarity of the phones is
\* 0.90 or more
StatedDuplicate(b, accepted) ==
    \E m \in 1..Len(accepted) :
        \E name \in {Strip(Lower(b.name))}, other \in {Strip(Lower(accepted[m].name))} :
            \/ name = other
            \/ SimilarityAtLeast(name, other, NameSimilarPercent)
            \/ /\ Len(b.phone) > 0
               /\ Len(accepted[m].phone) > 0
               /\ SimilarityAtLeast(b.phone, accepted[m].phone, PhoneSimilarPercent)

RECURSIVE StatedDedupFrom(_, _, _)
StatedDedupFrom(bs, n, accepted) ==
    IF n > Len(bs) THEN accepted
    ELSE StatedDedupFrom(bs, n + 1,
                         CHOOSE a \in {IF StatedDuplicate(b, acc) THEN acc ELSE Append(acc, b) :
                                           b \in {bs[n]}, acc \in {accepted}} : TRUE)

\* C20 as stated: deduplication drops a record if and only if its normalized
\* name equals an accepted name, or its name similarity to an accepted name is
\* 0.85 or more, or both records have phones of similarity 0.90 or more; so of
\* City Car Rentals and City Car Rental with the same phone only the first is
\* kept, and two records with unlike names and the same phone are collapsed.
C20_DroppedIffNameOrPhoneMatches ==
    ScrapeDone => unique_businesses = StatedDedupFrom(final_businesses, 1, <<>>)

\* two records with one phone went through deduplication
C20_Witness ==
    /\ ScrapeDone
    /\ \E n, m \in 1..Len(final_businesses) :
          /\ n < m
          /\ Len(final_businesses[n].phone) > 0
          /\ final_businesses[n].phone = final_businesses[m].phone

\* the part of the scenario that the name comparison alone decides: of City Car
\* Rental and City Car Rentals, in either order, the second is never returned
\* after the first
SimilarNamesCollapsed ==
    ScrapeDone =>
        \A n, m \in 1..Len(unique_businesses) :
            n # m => ~is_similar_text(Strip(Lower(unique_businesses[n].name)),
                                      Strip(Lower(unique_businesses[m].name)),
                                      NameSimilarPercent)

\* City Car Rental and Johar Town Motors, both with the phone 0300 1234567,
\* are both returned
SamePhoneBothReturned ==
    /\ ScrapeDone
    /\ \E n, m \in 1..Len(unique_businesses) :
          /\ unique_businesses[n].name = <<"C","i","t","y"," ","C","a","r"," ","R","e","n","t","a","l">>
          /\ unique_businesses[m].name = <<"J","o","h","a","r"," ","T","o","w","n"," ","M","o","t","o","r","s">>
          /\ unique_businesses[n].phone = <<"0","3","0","0"," ","1","2","3","4","5","6","7">>
          /\ unique_businesses[m].phone = <<"0","3","0","0"," ","1","2","3","4","5","6","7">>

----------------------------------------------------------------------------
(* GoogleMapsScraper.deduplicate_businesses on lists of records             *)

\* the variables of the operations of the sections above
contextVars ==
    <<urlVars, socialVars, enrichVars, batchVars, emailVars, classifyVars, buildVars,
      scrapeVars>>

ContextIdle ==
    /\ UrlIdle /\ SocialIdle /\ EnrichIdle /\ BatchIdle /\ EmailIdle
    /\ ClassifyIdle /\ BuildIdle /\ ScrapeIdle

\* a cleaned record as scrape_businesses builds it
Listing(name, phone) ==
    [name |-> name, rating |-> <<>>, review_count |-> <<>>, address |-> <<>>,
     category |-> DefaultCategory, phone |-> phone, website |-> <<>>, email |-> <<>>]

\* Royal Tour is similar to Loyal Tour and to Royal Tous (ratio 90), which
\* are not similar to each other (ratio 80)
ListingPool ==
    {Listing(<<"R","o","y","a","l"," ","T","o","u","r">>, <<"0","3","0","0"," ","1","2","3","4","5","6","7">>),
     Listing(<<"L","o","y","a","l"," ","T","o","u","r">>, <<"0","3","0","0"," ","1","2","3","4","5","6","7">>),
     Listing(<<"R","o","y","a","l"," ","T","o","u","s">>, <<"0","3","0","1"," ","7","6","5","4","3","2","1">>),
     Listing(<<" ","R","O","Y","A","L"," ","T","O","U","R"," ">>, <<>>),
     Listing(<<"M","e","t","r","o"," ","C","a","b","s">>, <<"0","3","0","1"," ","7","6","5","4","3","2","1">>)}

MaxListings == 3

ListingLists(n) == UNION {[1..m -> ListingPool] : m \in 0..n}

DedupInit ==
    /\ pc = "dedup_start"
    /\ dedup_input \in ListingLists(MaxListings)
    /\ dedup_output = <<>>
    /\ dedup_again = <<>>
    /\ ContextIdle
    /\ EndpointIdle /\ SessionIdle /\ ScrollIdle /\ LauncherIdle

\* unique_businesses = self.deduplicate_businesses(final_businesses)
Deduplicate ==
    /\ pc = "dedup_start"
    /\ pc' = "dedup_once"
    /\ dedup_output' = deduplicate_businesses(dedup_input)
    /\ UNCHANGED <<dedup_input, dedup_again, contextVars, endpointVars, sessionVars, scrollVars, launcherVars>>

\* the function applied to the list it returned
DeduplicateAgain ==
    /\ pc = "dedup_once"
    /\ pc' = "dedup_twice"
    /\ dedup_again' = deduplicate_businesses(dedup_output)
    /\ UNCHANGED <<dedup_input, dedup_output, contextVars, endpointVars, sessionVars, scrollVars, launcherVars>>

DedupNext == Deduplicate \/ DeduplicateAgain

SpecDedup == DedupInit /\ [][DedupNext]_vars

----------------------------------------------------------------------------
(* Claims about deduplicate_businesses                                     *)

DedupedOnce == pc \in {"dedup_once", "dedup_twice"}

\* the positions of the input that the output keeps, in order: the strictly
\* increasing maps from output positions to input positions with equal records
IsSubsequenceOf(out, in) ==
    /\ Len(out) <= Len(in)
    /\ \E keep \in [1..Len(out) -> 1..Len(in)] :
          /\ \A k \in 1..Len(out) : out[k] = in[keep[k]]
          /\ \A k \in 1..(Len(out) - 1) : keep[k] < keep[k + 1]

NormalName(b) == Strip(Lower(b.name))

\* the test deduplicate_businesses applies to a record and a record kept before
DuplicatesRecord(later, earlier) ==
    \/ NormalName(later) = NormalName(earlier)
    \/ is_similar_text(NormalName(later), NormalName(earlier), NameSimilarPercent)

\* the positions of the input whose records make up the output, each taken at
\* the first position after the one before
RECURSIVE KeptPositions(_, _, _, _)
KeptPositions(in, out, n, k) ==
    IF k > Len(out) \/ n > Len(in) THEN {}
    ELSE IF in[n] = out[k]
         THEN {n} \cup KeptPositions(in, out, n + 1, k + 1)
         ELSE KeptPositions(in, out, n + 1, k)

\* C21: the list deduplicate_businesses returns is a subsequence of the list
\* it is given (order kept, nothing added or changed); the first record of a
\* non-empty input is kept; every record left out duplicates a record that is
\* earlier in the input and is kept.
C21_StableFilter ==
    DedupedOnce =>
        /\ IsSubsequenceOf(dedup_output, dedup_input)
        /\ Len(dedup_input) > 0 => Len(dedup_output) > 0 /\ dedup_output[1] = dedup_input[1]
        /\ \A kept \in {KeptPositions(dedup_input, dedup_output, 1, 1)} :
              /\ Cardinality(kept) = Len(dedup_output)
              /\ \A n \in (1..Len(dedup_input)) \ kept :
                    \E m \in kept : m < n /\ DuplicatesRecord(dedup_input[n], dedup_input[m])

\* three records went in, the second was left out and the third was kept
C21_Witness ==
    /\ DedupedOnce
    /\ Len(dedup_input) = 3
    /\ dedup_output = <<dedup_input[1], dedup_input[3]>>
    /\ dedup_input[2] # dedup_input[1]

\* C22: deduplicate_businesses applied to its own result returns that result.
C22_Idempotent == pc = "dedup_twice" => dedup_again = dedup_output

\* the first run left a record out and kept two, the second run is done
C22_Witness ==
    /\ pc = "dedup_twice"
    /\ Len(dedup_output) = 2
    /\ Len(dedup_input) = 3

----------------------------------------------------------------------------
(* Claims about the records and requests of the two services               *)

\* the record has the key and a string under it
HasStringKey(biz, k) == biz.t = "obj" /\ k \in DOMAIN biz.v /\ biz.v[k].t = "str"

\* C23 as stated: every record an enrichment call returns has the keys email,
\* facebook, instagram, twitter, linkedin, youtube and whatsapp, each holding a
\* string (empty when nothing was found), also when the enrichment was
\* skipped for want of a usable website or failed.
C23_ContactKeysAlwaysPresent ==
    EnrichDone /\ ~outcome.raised =>
        \A k \in ContactKeys : HasStringKey(outcome.business, k)

\* a record with an aggregator's page as website was returned without a fetch
C23_Witness ==
    /\ EnrichDone
    /\ ~outcome.raised
    /\ business.t = "obj"
    /\ OnAggregator(WebsiteOf(business))
    /\ outcome.fetches = <<>>

\* the keys are there whenever the request's record had them as strings
KeysKeptWhenSent ==
    EnrichDone /\ ~outcome.raised /\ (\A k \in ContactKeys : HasStringKey(business, k)) =>
        \A k \in ContactKeys : HasStringKey(outcome.business, k)

----------------------------------------------------------------------------
(* POST /extract-single: extract_single_business                           *)

EmptyObject == JObj([k \in {} |-> JNull])

\* jsonify({"success": True, "business": enriched_business, ...})
SingleReply(enriched_business) ==
    [status |-> 200, body |-> [success |-> TRUE, business |-> enriched_business]]

\* the bodies of the requests: no JSON object, no business, an empty business,
\* a business that is no object, businesses with and without a usable website
SingleRequests ==
    {JNull, EmptyObject}
    \cup {JObj([business |-> b]) :
             b \in {EmptyObject, JNull, JStr(<<>>), JStr(<<"o","o","p","s">>),
                    Business(JStr(<<>>), NoContact),
                    Business(JStr(<<"h","t","t","p","s",":","/","/","w","w","w",".","f","a","c","e","b","o","o","k",".","c","o","m","/","c","i","t","y","r","e","n","t","a","l","s">>), BlankContact),
                    Business(OwnSite, BlankContact), Business(OwnSite, NoContact)}}

SingleSites == {Site(Response("none", 200, PageHome), <<>>, Timeout), Site(Timeout, <<>>, Timeout)}

SingleInit ==
    /\ pc = "single_received"
    /\ request \in SingleRequests
    /\ site \in SingleSites
    /\ business = <<>>
    /\ outcome = <<>>
    /\ reply = <<>>
    /\ contact_answer = <<>>
    /\ results = <<>>
    /\ UrlIdle /\ SocialIdle /\ BatchIdle /\ EmailIdle
    /\ ClassifyIdle /\ BuildIdle /\ ScrapeIdle /\ DedupIdle
    /\ SessionIdle /\ ScrollIdle /\ LauncherIdle

\* data.get('business', {}) on a body that is no object raises; line 511
SingleBadBody ==
    /\ pc = "single_received"
    /\ request.t # "obj"
    /\ reply' = ErrorReply(500, "'NoneType' object has no attribute 'get'")
    /\ pc' = "single_responded"
    /\ UNCHANGED <<request, contact_answer, results, enrichVars>>
    /\ UNCHANGED <<urlVars, socialVars, batchVars, emailVars, classifyVars, buildVars,
                   scrapeVars, dedupVars, sessionVars, scrollVars, launcherVars>>

\* if not business: return jsonify({"error": "No business provided"}), 400
SingleReject ==
    /\ pc = "single_received"
    /\ request.t = "obj"
    /\ ~Truthy(DictGet(request, "business", EmptyObject))
    /\ reply' = ErrorReply(400, "No business provided")
    /\ pc' = "single_responded"
    /\ UNCHANGED <<request, contact_answer, results, enrichVars>>
    /\ UNCHANGED <<urlVars, socialVars, batchVars, emailVars, classifyVars, buildVars,
                   scrapeVars, dedupVars, sessionVars, scrollVars, launcherVars>>

\* lines 502-513: the business is enriched and returned, or the exception answered
SingleExtract ==
    /\ pc = "single_received"
    /\ request.t = "obj"
    /\ Truthy(DictGet(request, "business", EmptyObject))
    /\ business' = DictGet(request, "business", EmptyObject)
    /\ \E o \in {extract_contact_details(DictGet(request, "business", EmptyObject), site)} :
          /\ outcome' = o
          /\ reply' = IF o.raised
                      THEN ErrorReply(500, "'str' object has no attribute 'get'")
                      ELSE SingleReply(o.business)
    /\ pc' = "single_responded"
    /\ UNCHANGED <<request, contact_answer, results, site>>
    /\ UNCHANGED <<urlVars, socialVars, batchVars, emailVars, classifyVars, buildVars,
                   scrapeVars, dedupVars, sessionVars, scrollVars, launcherVars>>

SingleNext == SingleBadBody \/ SingleReject \/ SingleExtract

----------------------------------------------------------------------------
(* GoogleMapsScraper.enrich_with_contact_details                           *)

\* what requests.post brought: an exception, or a status and a body; the body
\* is JSON or not, has the keys named, and under businesses null or a list
Answer(exc, status, json, keys, success, null, list) ==
    [exc |-> exc, status |-> status, json |-> json, keys |-> keys, success |-> success,
     businesses |-> [null |-> null, list |-> list]]

NoBody(exc, status) == Answer(exc, status, FALSE, {}, FALSE, FALSE, <<>>)

\* the list the contact server sends back for the list posted
EnrichedList(posted) ==
    SubSeq([n \in 1..Len(posted) |-> [posted[n] EXCEPT !.email = <<"i","n","f","o","@","c","i","t","y","c","a","r",".","p","k">>]],
           1, Len(posted))

\* the answers to a post of the list
ContactAnswersTo(posted) ==
    {NoBody("connection", 0), NoBody("timeout", 0), NoBody("none", 500), NoBody("none", 200),
     Answer("none", 400, TRUE, {"error"}, FALSE, FALSE, <<>>),
     Answer("none", 200, TRUE, {"error"}, FALSE, FALSE, <<>>),
     Answer("none", 200, TRUE, {"success", "businesses"}, FALSE, FALSE, <<>>),
     Answer("none", 200, TRUE, {"success", "businesses"}, TRUE, FALSE, EnrichedList(posted)),
     Answer("none", 200, TRUE, {"success", "businesses"}, TRUE, FALSE, <<>>),
     Answer("none", 200, TRUE, {"success", "businesses"}, TRUE, TRUE, <<>>),
     Answer("none", 200, TRUE, {"success"}, TRUE, FALSE, <<>>)}

HttpOk == 200

\* a list returned: not null
ListReturned(list) == [null |-> FALSE, list |-> list]

\* a variant that takes the list of every 200 answer with a JSON body
enrich_with_contact_details_AnyBody(businesses_sent, answer) ==
    IF Len(businesses_sent) = 0 THEN ListReturned(businesses_sent)
    ELSE IF answer.exc # "none" THEN ListReturned(businesses_sent)
    ELSE IF answer.status = HttpOk /\ answer.json
         THEN IF "businesses" \in answer.keys THEN answer.businesses
              ELSE ListReturned(businesses_sent)
    ELSE ListReturned(businesses_sent)

\* lines 1585-1613: what the method returns for the list and the answer
enrich_with_contact_details(businesses_sent, answer) ==
    IF Len(businesses_sent) = 0 THEN ListReturned(businesses_sent)
    ELSE IF answer.exc # "none" THEN ListReturned(businesses_sent)
    ELSE IF answer.status = HttpOk
         THEN IF ~answer.json THEN ListReturned(businesses_sent)
              ELSE IF "success" \in answer.keys /\ answer.success
                   THEN IF "businesses" \in answer.keys THEN answer.businesses
                        ELSE ListReturned(businesses_sent)
              ELSE ListReturned(businesses_sent)
    ELSE ListReturned(businesses_sent)

----------------------------------------------------------------------------
(* POST /scrape: scrape_endpoint                                           *)

ScrapeBody(keys) ==
    JObj([k \in keys |-> IF k = "search_term" THEN JStr(<<"c","a","r"," ","r","e","n","t","a","l">>)
                         ELSE IF k = "area_name" THEN JStr(<<"G","u","l","b","e","r","g">>)
                         ELSE JNum(<<"3","1">>)])

ScrapeRequests ==
    {JNull}
    \cup {ScrapeBody(keys) : keys \in SUBSET {"search_term", "area_name", "latitude"}}
    \cup {JObj([ScrapeBody({"search_term", "area_name"}).v EXCEPT ![k] = e]) :
             k \in {"search_term", "area_name"}, e \in {JStr(<<>>), JNull}}

EndpointCards == {CityRentalCard, JoharMotorsCard, RoyalToursCard}

\* a variant that rejects a body only when both are missing
RequiredMissing_Both(data) ==
    /\ ~Truthy(DictGet(data, "search_term", JStr(<<>>)))
    /\ ~Truthy(DictGet(data, "area_name", JStr(<<>>)))

\* if not search_term or not area_name
RequiredMissing(data) ==
    \/ ~Truthy(DictGet(data, "search_term", JStr(<<>>)))
    \/ ~Truthy(DictGet(data, "area_name", JStr(<<>>)))

\* jsonify({"success": True, "data": result, ...})
ScrapeReply(result) == [status |-> 200, body |-> [success |-> TRUE, data |-> result]]

EndpointInit ==
    /\ pc = "endpoint_received"
    /\ request \in ScrapeRequests
    /\ \E cards \in UNION {[1..m -> EndpointCards] : m \in 1..MaxCards} :
          maps_page = [cards |-> cards, fallback |-> <<>>]
    /\ businesses_data = <<>>
    /\ processed = 0
    /\ final_businesses = <<>>
    /\ unique_businesses = <<>>
    /\ scrape_result = <<>>
    /\ reply = <<>>
    /\ contact_answer = <<>>
    /\ results = <<>>
    /\ UrlIdle /\ SocialIdle /\ EnrichIdle /\ BatchIdle /\ EmailIdle
    /\ ClassifyIdle /\ BuildIdle /\ DedupIdle
    /\ SessionIdle /\ ScrollIdle /\ LauncherIdle

\* data.get('search_term', '') on a body that is no object raises; lines 1667-1669
EndpointBadBody ==
    /\ pc = "endpoint_received"
    /\ request.t # "obj"
    /\ reply' = ErrorReply(500, "'NoneType' object has no attribute 'get'")
    /\ pc' = "endpoint_responded"
    /\ UNCHANGED <<request, contact_answer, results, scrapeVars>>
    /\ UNCHANGED <<urlVars, socialVars, enrichVars, batchVars, emailVars, classifyVars,
                   buildVars, dedupVars, sessionVars, scrollVars, launcherVars>>

\* return jsonify({"error": "search_term and area_name are required"}), 400
EndpointReject ==
    /\ pc = "endpoint_received"
    /\ request.t = "obj"
    /\ RequiredMissing(request)
    /\ reply' = ErrorReply(400, "search_term and area_name are required")
    /\ pc' = "endpoint_responded"
    /\ UNCHANGED <<request, contact_answer, results, scrapeVars>>
    /\ UNCHANGED <<urlVars, socialVars, enrichVars, batchVars, emailVars, classifyVars,
                   buildVars, dedupVars, sessionVars, scrollVars, launcherVars>>

\* result = scraper.scrape_businesses(...): the call is made
EndpointScrape ==
    /\ pc = "endpoint_received"
    /\ request.t = "obj"
    /\ ~RequiredMissing(request)
    /\ pc' = "scrape_start"
    /\ UNCHANGED <<request, reply, contact_answer, results, scrapeVars>>
    /\ UNCHANGED <<urlVars, socialVars, enrichVars, batchVars, emailVars, classifyVars,
                   buildVars, dedupVars, sessionVars, scrollVars, launcherVars>>

\* if "error" in result: return jsonify({"error": result["error"]}), 500
EndpointScrapeFailed ==
    /\ pc = "scrape_failed"
    /\ reply' = ErrorReply(500, scrape_result.error)
    /\ pc' = "endpoint_responded"
    /\ UNCHANGED <<request, contact_answer, results, scrapeVars>>
    /\ UNCHANGED <<urlVars, socialVars, enrichVars, batchVars, emailVars, classifyVars,
                   buildVars, dedupVars, sessionVars, scrollVars, launcherVars>>

\* lines 1652-1663 for a result without businesses
EndpointReplyEmpty ==
    /\ pc = "scrape_done"
    /\ Len(scrape_result.businesses) = 0
    /\ reply' = ScrapeReply(scrape_result)
    /\ pc' = "endpoint_responded"
    /\ UNCHANGED <<request, contact_answer, results, scrapeVars>>
    /\ UNCHANGED <<urlVars, socialVars, enrichVars, batchVars, emailVars, classifyVars,
                   buildVars, dedupVars, sessionVars, scrollVars, launcherVars>>

\* lines 1652-1668 for a result with businesses: they are posted to the contact
\* server; len() of a null list raises
EndpointEnrich ==
    /\ pc = "scrape_done"
    /\ Len(scrape_result.businesses) > 0
    /\ \E answer \in ContactAnswersTo(scrape_result.businesses) :
       \E enriched \in {enrich_with_contact_details(scrape_result.businesses, answer)} :
          /\ contact_answer' = answer
          /\ reply' = IF enriched.null
                      THEN ErrorReply(500, "object of type 'NoneType' has no len()")
                      ELSE ScrapeReply([businesses  |-> enriched.list,
                                        total_found |-> Len(enriched.list)])
    /\ pc' = "endpoint_responded"
    /\ UNCHANGED <<request, results, scrapeVars>>
    /\ UNCHANGED <<urlVars, socialVars, enrichVars, batchVars, emailVars, classifyVars,
                   buildVars, dedupVars, sessionVars, scrollVars, launcherVars>>

EndpointNext ==
    \/ EndpointBadBody
    \/ EndpointReject
    \/ EndpointScrape
    \/ ScrapeNext
    \/ EndpointScrapeFailed
    \/ EndpointReplyEmpty
    \/ EndpointEnrich

SpecEndpoint == EndpointInit /\ [][EndpointNext]_vars

\* the three endpoints that take a request, each serving one
RequestsInit == BatchInit \/ SingleInit \/ EndpointInit

RequestsNext == BatchNext \/ SingleNext \/ EndpointNext

SpecRequests == RequestsInit /\ [][RequestsNext]_vars

----------------------------------------------------------------------------
(* Claims about the endpoints                                              *)

BatchServing == pc \in {"batch_received", "batch_collecting", "batch_failing", "batch_responded"}

SingleServing == pc \in {"single_received", "single_responded"}

EndpointServing ==
    pc \in {"endpoint_received", "scrape_start", "scrape_loop", "scrape_done", "scrape_failed",
            "endpoint_responded"}

\* the key is missing from the body or holds nothing
Lacks(data, key) == key \notin DOMAIN data.v \/ ~Truthy(data.v[key])

\* an error response of the 4xx class
Rejection(r) == r.status >= 400 /\ r.status < 500 /\ DOMAIN r.body = {"error"}

\* C24: a batch enrichment request without businesses, a single enrichment
\* request without a business and a scrape request without search_term or
\* without area_name are answered with an error at once: no business is
\* handed to a worker, no enrichment call is made, no scrape is started.
C24_InvalidRequestRejected ==
    /\ BatchServing /\ businesses = <<>> =>
          /\ pc \in {"batch_received", "batch_responded"}
          /\ futures = <<>>
          /\ enriched_businesses = <<>>
          /\ pc = "batch_responded" => Rejection(response)
    /\ SingleServing /\ request.t = "obj" /\ Lacks(request, "business") =>
          /\ DOMAIN outcome = {}
          /\ pc = "single_responded" => Rejection(reply)
    /\ EndpointServing /\ request.t = "obj"
                       /\ (Lacks(request, "search_term") \/ Lacks(request, "area_name")) =>
          /\ pc \in {"endpoint_received", "endpoint_responded"}
          /\ DOMAIN scrape_result = {}
          /\ businesses_data = <<>>
          /\ DOMAIN contact_answer = {}
          /\ pc = "endpoint_responded" => Rejection(reply)

\* a scrape request with a search term and no area name was answered
C24_Witness ==
    /\ pc = "endpoint_responded"
    /\ request.t = "obj"
    /\ ~Lacks(request, "search_term")
    /\ Lacks(request, "area_name")
    /\ Rejection(reply)

\* a single enrichment request whose business is an empty object was answered
SingleRejected ==
    /\ pc = "single_responded"
    /\ request.t = "obj"
    /\ "business" \in DOMAIN request.v
    /\ Rejection(reply)

\* a batch request with an empty list was answered
BatchRejected == pc = "batch_responded" /\ businesses = <<>> /\ Rejection(response)

\* the post failed: no connection, a timeout, a status other than 200, a body
\* that is no JSON or a body that does not say success
PostFailed(answer) ==
    \/ answer.exc # "none"
    \/ answer.status # HttpOk
    \/ ~answer.json
    \/ "success" \notin answer.keys
    \/ ~answer.success

\* the records were posted to the contact server and the request answered
Posted == pc = "endpoint_responded" /\ DOMAIN contact_answer # {}

\* C27: when the contact server cannot be reached, answers with a status other
\* than 200 or with a body that does not say success, the scrape response is
\* still the success envelope with the records as scrape_businesses returned
\* them; and in every success envelope total_found is the number of
\* businesses in it.
C27_EnrichmentFailureKeepsRecords ==
    /\ Posted /\ PostFailed(contact_answer) =>
          /\ reply.status = HttpOk
          /\ reply.body.success
          /\ reply.body.data.businesses = scrape_result.businesses
          /\ reply.body.data.businesses = unique_businesses
    /\ pc = "endpoint_responded" /\ reply.status = HttpOk =>
          reply.body.data.total_found = Len(reply.body.data.businesses)

\* the contact server answered 200 with success false and an empty list, and
\* the response holds the two records of the scrape
C27_Witness ==
    /\ Posted
    /\ contact_answer.status = HttpOk
    /\ contact_answer.json
    /\ ~contact_answer.success
    /\ reply.status = HttpOk
    /\ Len(reply.body.data.businesses) = 2
    /\ reply.body.data.total_found = 2

\* the contact server could not be reached and the response holds the records
UnreachableAnswered ==
    /\ Posted
    /\ contact_answer.exc = "connection"
    /\ reply.status = HttpOk
    /\ Len(reply.body.data.businesses) > 0

----------------------------------------------------------------------------
(* The worker threads of /enrich on the one extractor and its session      *)

\* a host as the shared requests.Session meets it: what it serves to a client
\* without its cookie, what it serves to a client with it, and whether its
\* answers set the cookie
Host(first, returning, cookie) == [first |-> first, returning |-> returning, cookie |-> cookie]

\* a page that only asks the browser to come back with the cookie it sets
PageChallenge == <<TextNode(<<"C","h","e","c","k","i","n","g"," ","y","o","u","r"," ","b","r","o","w","s","e","r">>)>>

\* a host that serves its home page to clients that hold its cookie
CookieHost ==
    Host(Site(Response("none", 200, PageChallenge), <<>>, Timeout),
         Site(Response("none", 200, PageHome), <<>>, Timeout),
         TRUE)

\* a host that does not use cookies
PlainHost(s) == Host(s, s, FALSE)

ShareCases ==
    {<<Business(OwnSite, BlankContact), CookieHost>>,
     <<Business(JStr(<<"h","t","t","p","s",":","/","/","c","i","t","y","r","e","n","t","a","l","s",".","p","k","/","l","a","h","o","r","e">>), BlankContact), CookieHost>>,
     <<Business(JStr(<<"h","t","t","p",":","/","/","a","c","m","e",".","p","k","/","?","r","e","f","=","f","a","c","e","b","o","o","k",".","c","o","m">>), BlankContact),
       PlainHost(Site(Response("none", 200, PageHome), <<>>, Timeout))>>,
     <<JStr(<<"o","o","p","s">>), PlainHost(DeadSite)>>}

MaxShared == 2

\* the site as a call that starts now meets it
SiteSeen(host, held, website) ==
    IF Lower(Netloc(website)) \in held THEN host.returning ELSE host.first

\* the cookies the session holds after the call
SessionAfter(host, held, website, o) ==
    IF o.fetches # <<>> /\ SiteSeen(host, held, website).main.exc = "none" /\ host.cookie
    THEN held \cup {Lower(Netloc(website))}
    ELSE held

WebsiteText(biz) ==
    IF biz.t = "obj" /\ "website" \in DOMAIN biz.v /\ biz.v["website"].t = "str"
    THEN biz.v["website"].v
    ELSE <<>>

SessionInit ==
    /\ pc = "batch_received"
    /\ \E n \in 0..MaxShared : \E cases \in [1..n -> ShareCases] :
          /\ businesses = [i \in 1..n |-> cases[i][1]]
          /\ sites = [i \in 1..n |-> cases[i][2]]
    /\ futures = <<>>
    /\ enriched_businesses = <<>>
    /\ response = <<>>
    /\ session = {}
    /\ UrlIdle /\ SocialIdle /\ EnrichIdle /\ EmailIdle
    /\ ClassifyIdle /\ BuildIdle /\ ScrapeIdle
    /\ DedupIdle /\ EndpointIdle /\ ScrollIdle /\ LauncherIdle

\* the thread runs extractor.extract_contact_details(business) to its end: its
\* fetches go through self.session, which keeps the cookies of every answer
SharedWorkerFinish(i) ==
    /\ pc \in {"batch_collecting", "batch_failing"}
    /\ futures[i].state = "running"
    /\ \E website \in {WebsiteText(businesses[i])} :
       \E o \in {extract_contact_details(businesses[i], SiteSeen(sites[i], session, website))} :
          /\ futures' = [futures EXCEPT ![i] = Future("done", o.raised, o.business)]
          /\ session' = SessionAfter(sites[i], session, website, o)
    /\ UNCHANGED <<pc, businesses, sites, enriched_businesses, response>>
    /\ UNCHANGED <<urlVars, socialVars, enrichVars, emailVars, classifyVars, buildVars,
                   scrapeVars, dedupVars, endpointVars, scrollVars, launcherVars>>

SessionNext ==
    \/ RejectEmpty
    \/ Submit
    \/ WorkerStart
    \/ \E i \in 1..Len(futures) : SharedWorkerFinish(i)
    \/ \E i \in 1..Len(futures) : Collect(i)
    \/ ReplySuccess
    \/ ReplyError

SpecSession == SessionInit /\ [][SessionNext]_vars

----------------------------------------------------------------------------
(* Claims about concurrent enrichment                                      *)

\* the call for business i has returned or raised
Finished(i) == futures[i].state \in {"done", "collected"}

\* what the call for business i returns when no other call has used the session
AloneResult(i) == extract_contact_details(businesses[i], sites[i].first).business

\* C25 as stated: concurrent calls share nothing that changes, so what a call
\* returns for its business is what it returns when that business is enriched
\* alone, whatever other businesses are enriched with it and in whatever order.
C25_ResultIndependentOfOthers ==
    pc \in {"batch_collecting", "batch_failing", "batch_responded"} =>
          \A i \in 1..Len(futures) : Finished(i) => futures[i].result = AloneResult(i)

\* two businesses on one host were both enriched
C25_Witness ==
    /\ pc = "batch_responded"
    /\ Len(futures) = 2
    /\ Finished(1) /\ Finished(2)
    /\ businesses[1] # businesses[2]
    /\ sites[1] = CookieHost /\ sites[2] = CookieHost

\* whatever the session holds, a call returns what it returns alone when the
\* host of its website serves the same with and without cookie
SameWithoutCookies ==
    pc \in {"batch_collecting", "batch_failing", "batch_responded"} =>
        \A i \in 1..Len(futures) :
            Finished(i) /\ sites[i].first = sites[i].returning =>
                futures[i].result = AloneResult(i)

----------------------------------------------------------------------------
(* POST /enrich with more businesses than pool threads                     *)

MaxQueued == 6

\* a business without a website: the call returns the record as it is
QueuedCase == <<Business(JStr(<<>>), NoContact), DeadSite>>

\* an element that makes the exception handler of the loop raise
BrokenCase == <<JStr(<<"o","o","p","s">>), DeadSite>>

\* n elements: businesses without website, the last one possibly no object
QueuedCases(n, broken) ==
    [i \in 1..n |-> IF broken /\ i = n THEN BrokenCase ELSE QueuedCase]

PoolInit ==
    /\ pc = "batch_received"
    /\ \E n \in 0..MaxQueued : \E broken \in BOOLEAN :
          /\ businesses = [i \in 1..n |-> QueuedCases(n, broken)[i][1]]
          /\ sites = [i \in 1..n |-> QueuedCases(n, broken)[i][2]]
    /\ futures = <<>>
    /\ enriched_businesses = <<>>
    /\ response = <<>>
    /\ UrlIdle
    /\ SocialIdle
    /\ EnrichIdle
    /\ EmailIdle
    /\ ScraperIdle

SpecPool == PoolInit /\ [][BatchNext]_vars

\* C26: at every moment of a batch call at most max_workers (5) businesses
\* are being enriched, whatever the size of the batch, and a response to a
\* non-empty batch is produced only when every submitted business has a
\* future that finished, by returning or by raising.
C26_PoolBoundedAndAllFinished ==
    /\ Cardinality(Running) <= max_workers
    /\ pc = "batch_responded" /\ businesses # <<>> =>
          /\ Len(futures) = Len(businesses)
          /\ AllFinished

\* the pool is full and a submitted business waits for a thread
C26_Witness ==
    /\ Len(businesses) > max_workers
    /\ Cardinality(Running) = max_workers
    /\ Pending # {}

\* the response to a batch larger than the pool was produced
PoolResponded ==
    /\ pc = "batch_responded"
    /\ Len(futures) > max_workers
    /\ AllFinished

\* the error response as well waits for the businesses still queued
PoolFailedResponded ==
    /\ pc = "batch_responded"
    /\ Len(futures) > max_workers
    /\ response.status = 500

----------------------------------------------------------------------------
(* The scroll loop of GoogleMapsScraper.scrape_businesses                  *)
(* scroll_attempt counts the turns of the loop that were begun: the value  *)
(* of the loop variable plus one.                                          *)

\* range(self.settings["scroll_attempts"] * 3)
ScrollFactor == 3

\* if no_change_count >= 5: alternative scrolling
AlternativeAfter == 5

\* elif no_change_count >= 10: break
StallLimit == 10

\* if current_count >= max_results * 2: break
DuplicateAllowance == 2

Counters(current, previous, no_change, stop) ==
    [current_count |-> current, previous_count |-> previous,
     no_change_count |-> no_change, stop |-> stop]

EnoughResults(count) == count >= max_results * DuplicateAllowance

\* a variant whose alternative scrolling never gives up
ScrollBody_NoStallBreak(previous, no_change, count, end_of_list, new_count) ==
    IF end_of_list THEN Counters(count, previous, no_change, TRUE)
    ELSE IF count = previous
    THEN IF no_change + 1 >= AlternativeAfter
         THEN IF new_count > count
              THEN Counters(new_count, previous, 0, EnoughResults(new_count))
              ELSE Counters(count, previous, no_change + 1, EnoughResults(count))
         ELSE Counters(count, previous, no_change + 1, EnoughResults(count))
    ELSE Counters(count, count, 0, EnoughResults(count))

\* one turn of the loop, lines 461-527: count is what the page shows after
\* the scroll, end_of_list whether the end marker is shown, new_count what it
\* shows after alternative scrolling
ScrollBody(previous, no_change, count, end_of_list, new_count) ==
    IF end_of_list THEN Counters(count, previous, no_change, TRUE)
    ELSE IF count = previous
    THEN IF no_change + 1 >= AlternativeAfter
         THEN IF new_count > count
              THEN Counters(new_count, previous, 0, EnoughResults(new_count))
              ELSE IF no_change + 1 >= StallLimit
              THEN Counters(count, previous, no_change + 1, TRUE)
              ELSE Counters(count, previous, no_change + 1, EnoughResults(count))
         ELSE Counters(count, previous, no_change + 1, EnoughResults(count))
    ELSE Counters(count, count, 0, EnoughResults(count))

MaxScrollAttempts == 4

\* the numbers of cards the page can show
ObservedCounts == {0, 20, 40, 60}

\* previous_count = 0; no_change_count = 0
ScrollInit ==
    /\ pc = "scrolling"
    /\ scroll_attempts \in 0..MaxScrollAttempts
    /\ scroll_attempt = 0
    /\ current_count = 0
    /\ previous_count = 0
    /\ no_change_count = 0
    /\ ContextIdle
    /\ DedupIdle /\ EndpointIdle /\ SessionIdle /\ LauncherIdle

\* one turn of "for scroll_attempt in range(...)"
ScrollOnce ==
    /\ pc = "scrolling"
    /\ scroll_attempt < scroll_attempts * ScrollFactor
    /\ \E count \in ObservedCounts, end_of_list \in BOOLEAN, new_count \in ObservedCounts :
       \E after \in {ScrollBody(previous_count, no_change_count, count, end_of_list, new_count)} :
          /\ scroll_attempt' = scroll_attempt + 1
          /\ current_count' = after.current_count
          /\ previous_count' = after.previous_count
          /\ no_change_count' = after.no_change_count
          /\ pc' = IF after.stop THEN "scrolled" ELSE "scrolling"
    /\ UNCHANGED <<scroll_attempts, contextVars, dedupVars, endpointVars, sessionVars, launcherVars>>

\* the range is used up
ScrollExhausted ==
    /\ pc = "scrolling"
    /\ scroll_attempt >= scroll_attempts * ScrollFactor
    /\ pc' = "scrolled"
    /\ UNCHANGED <<scrollVars, contextVars, dedupVars, endpointVars, sessionVars, launcherVars>>

\* page.evaluate, wait_for_timeout or query_selector raises: the exception
\* leaves the loop for the handler of scrape_businesses
ScrollRaises ==
    /\ pc = "scrolling"
    /\ scroll_attempt < scroll_attempts * ScrollFactor
    /\ scroll_attempt' = scroll_attempt + 1
    /\ pc' = "scroll_failed"
    /\ UNCHANGED <<scroll_attempts, current_count, previous_count, no_change_count>>
    /\ UNCHANGED <<contextVars, dedupVars, endpointVars, sessionVars, launcherVars>>

ScrollNext == ScrollOnce \/ ScrollExhausted \/ ScrollRaises

\* a turn of the loop ends: every call it makes to the page has a timeout
SpecScroll == ScrollInit /\ [][ScrollNext]_vars /\ WF_vars(ScrollNext)

----------------------------------------------------------------------------
(* Claims about the scroll loop                                            *)

ScrollStopped == pc \in {"scrolled", "scroll_failed"}

\* C28: the scroll loop always terminates; for every sequence of observed
\* counts it runs at most 3 x scroll_attempts turns, and its counter of
\* consecutive turns without growth never exceeds 10.
C28_ScrollLoopBounded ==
    /\ [](/\ scroll_attempt <= ScrollFactor * scroll_attempts
          /\ no_change_count <= StallLimit)
    /\ <>ScrollStopped

\* the loop stopped because the counter reached 10
C28_Witness ==
    /\ pc = "scrolled"
    /\ no_change_count = StallLimit
    /\ scroll_attempt < ScrollFactor * scroll_attempts

\* the loop ran through the whole range
ScrollRangeUsedUp ==
    /\ pc = "scrolled"
    /\ scroll_attempts = MaxScrollAttempts
    /\ scroll_attempt = ScrollFactor * scroll_attempts

\* alternative scrolling found more cards and the counter was reset
AlternativeWorked ==
    /\ pc = "scrolling"
    /\ scroll_attempt >= AlternativeAfter
    /\ no_change_count = 0
    /\ current_count > previous_count

----------------------------------------------------------------------------
(* POST /scrape-batch: scrape_batch_endpoint                               *)

\* a JSON array
JList(items) == [t |-> "list", v |-> items]

required_fields == {"search_term", "area_name", "latitude", "longitude"}

\* a location object with the given keys and latitude
LocationBody(keys, latitude) ==
    JObj([k \in keys |-> IF k = "search_term" THEN JStr(<<"c","a","r"," ","r","e","n","t","a","l">>)
                         ELSE IF k = "area_name" THEN JStr(<<"G","u","l","b","e","r","g">>)
                         ELSE IF k = "latitude" THEN latitude
                         ELSE JNum(<<"7","4">>)])

\* elements of the list: a full location, one without longitude, one whose
\* latitude is no number, and a bare area name
LocationPool ==
    {LocationBody(required_fields, JNum(<<"3","1">>)),
     LocationBody(required_fields \ {"longitude"}, JNum(<<"3","1">>)),
     LocationBody(required_fields, JStr(<<"n","o","r","t","h">>)),
     JStr(<<"G","u","l","b","e","r","g">>)}

MaxLocations == 3

BatchScrapeRequests ==
    {JNull, JObj([k \in {"search_term"} |-> JStr(<<"c","a","r"," ","r","e","n","t","a","l">>)])}
    \cup {JObj([k \in {"locations"} |-> JList(items)]) :
             items \in UNION {[1..n -> LocationPool] : n \in 0..MaxLocations}}

\* what scraper.scrape_businesses returns: a result or its error dict
ScrapeOutcomes ==
    {[businesses |-> <<CleanedBusiness(CardRecord(CityRentalsCard, 0), <<>>, <<>>)>>,
      total_found |-> 1],
     [businesses |-> <<>>, error |-> "browser"]}

\* data.get('locations', [])
LocationsOf(data) == DictGet(data, "locations", JList(<<>>))

\* location.get('area_name', 'Unknown') on a dict
LocationName(location) == DictGet(location, "area_name", JStr(<<"U","n","k","n","o","w","n">>))

\* all(field in location for field in required_fields) on a dict
HasRequiredFields(location) == required_fields \subseteq DOMAIN location.v

\* float(x) raises for a value that is no number and no numeric string
FloatRaises(x) ==
    CASE x.t = "num" -> FALSE
      [] x.t = "str" -> Len(KeepChars(x.v, Digits)) # Len(x.v) \/ Len(x.v) = 0
      [] OTHER       -> TRUE

FailedEntry(location, error) == [location |-> location, success |-> FALSE, error |-> error]

ScrapedEntry(location, result) == [location |-> location, success |-> TRUE, data |-> result]

\* r['success'] for r in results
Successful(entries) == {i \in 1..Len(entries) : entries[i].success}

\* the 200 response of lines 1722-1728
LocationsReply(entries, locations) ==
    [status |-> 200,
     body   |-> [success |-> TRUE, results |-> entries, total_locations |-> Len(locations),
                 successful_scrapes |-> Cardinality(Successful(entries))]]

\* the 500 response of the outer handler, lines 1730-1736
BatchErrorReply(message) == [status |-> 500, body |-> [success |-> FALSE, error |-> message]]

LocationsInit ==
    /\ pc = "locations_received"
    /\ request \in BatchScrapeRequests
    /\ reply = <<>>
    /\ contact_answer = <<>>
    /\ results = <<>>
    /\ ContextIdle
    /\ DedupIdle /\ SessionIdle /\ ScrollIdle /\ LauncherIdle

\* the element of the list the loop is at
NextLocation == LocationsOf(request).v[Len(results) + 1]

InLoop ==
    /\ pc = "locations_loop"
    /\ Len(results) < Len(LocationsOf(request).v)

LocationsUnchanged ==
    UNCHANGED <<request, contact_answer, contextVars, dedupVars, sessionVars, scrollVars,
                launcherVars>>

\* data.get on a body that is no object raises: the outer handler answers 500
LocationsBadBody ==
    /\ pc = "locations_received"
    /\ request.t # "obj"
    /\ reply' = BatchErrorReply("'NoneType' object has no attribute 'get'")
    /\ pc' = "locations_responded"
    /\ UNCHANGED results
    /\ LocationsUnchanged

\* if not locations: return jsonify({"error": "No locations provided"}), 400
LocationsReject ==
    /\ pc = "locations_received"
    /\ request.t = "obj"
    /\ LocationsOf(request).v = <<>>
    /\ reply' = ErrorReply(400, "No locations provided")
    /\ pc' = "locations_responded"
    /\ UNCHANGED results
    /\ LocationsUnchanged

\* results = []
LocationsBegin ==
    /\ pc = "locations_received"
    /\ request.t = "obj"
    /\ LocationsOf(request).v # <<>>
    /\ pc' = "locations_loop"
    /\ UNCHANGED <<results, reply>>
    /\ LocationsUnchanged

\* a dict without one of the required fields: a failed entry, continue
LocationMissing ==
    /\ InLoop
    /\ NextLocation.t = "obj"
    /\ ~HasRequiredFields(NextLocation)
    /\ results' = Append(results, FailedEntry(LocationName(NextLocation), "Missing required fields"))
    /\ UNCHANGED <<pc, reply>>
    /\ LocationsUnchanged

\* a dict with the required fields whose latitude float() refuses: the
\* handler of the loop appends a failed entry
LocationRaises ==
    /\ InLoop
    /\ NextLocation.t = "obj"
    /\ HasRequiredFields(NextLocation)
    /\ FloatRaises(NextLocation.v["latitude"])
    /\ results' = Append(results, FailedEntry(LocationName(NextLocation), "could not convert string to float"))
    /\ UNCHANGED <<pc, reply>>
    /\ LocationsUnchanged

\* the location is scraped; whatever scrape_businesses returns, its error
\* dict included, is appended as a successful entry
LocationScrape ==
    /\ InLoop
    /\ NextLocation.t = "obj"
    /\ HasRequiredFields(NextLocation)
    /\ ~FloatRaises(NextLocation.v["latitude"])
    /\ \E result \in ScrapeOutcomes :
          results' = Append(results, ScrapedEntry(NextLocation.v["area_name"], result))
    /\ UNCHANGED <<pc, reply>>
    /\ LocationsUnchanged

\* an element that is no dict: the membership test is false (str) or raises,
\* location.get raises, in the handler of the loop location.get raises again,
\* and the outer handler answers 500
LocationNotObject ==
    /\ InLoop
    /\ NextLocation.t # "obj"
    /\ reply' = BatchErrorReply("'str' object has no attribute 'get'")
    /\ pc' = "locations_responded"
    /\ UNCHANGED results
    /\ LocationsUnchanged

\* the loop is over: lines 1722-1728
LocationsRespond ==
    /\ pc = "locations_loop"
    /\ Len(results) = Len(LocationsOf(request).v)
    /\ reply' = LocationsReply(results, LocationsOf(request).v)
    /\ pc' = "locations_responded"
    /\ UNCHANGED results
    /\ LocationsUnchanged

LocationsNext ==
    \/ LocationsBadBody
    \/ LocationsReject
    \/ LocationsBegin
    \/ LocationMissing
    \/ LocationRaises
    \/ LocationScrape
    \/ LocationNotObject
    \/ LocationsRespond

SpecLocations == LocationsInit /\ [][LocationsNext]_vars

----------------------------------------------------------------------------
(* Claims about the multi-location scrape call                             *)

\* the call was answered for a request with a non-empty list of locations
LocationsAnswered ==
    /\ pc = "locations_responded"
    /\ request.t = "obj"
    /\ LocationsOf(request).v # <<>>

\* the location lacks a required field or its scrape raises
MustFail(location) ==
    \/ location.t # "obj"
    \/ ~HasRequiredFields(location)
    \/ FloatRaises(location.v["latitude"])

\* the name an entry carries for a location
StatedName(location) ==
    IF location.t = "obj" THEN LocationName(location) ELSE JStr(<<"U","n","k","n","o","w","n">>)

\* the entries of a 200 response match the locations one to one, in order
EntriesMatch(locations) ==
    /\ reply.status = 200
    /\ Len(reply.body.results) = Len(locations)
    /\ \A i \in 1..Len(locations) :
          /\ reply.body.results[i].location = StatedName(locations[i])
          /\ MustFail(locations[i]) => ~reply.body.results[i].success
    /\ reply.body.successful_scrapes = Cardinality(Successful(reply.body.results))

\* C29 as stated: the results list of a multi-location call has exactly one
\* entry per input location, in input order; a location that lacks a required
\* field or whose scrape raises is a failed entry and the later locations are
\* still processed; successful_scrapes counts the entries marked successful.
C29_OneEntryPerLocation ==
    LocationsAnswered => \A locations \in {LocationsOf(request).v} : EntriesMatch(locations)

\* a call whose list holds an element that is no object, followed by a full
\* location, was answered
C29_Witness ==
    /\ LocationsAnswered
    /\ \E i \in 1..(Len(LocationsOf(request).v) - 1) :
          /\ LocationsOf(request).v[i].t # "obj"
          /\ LocationsOf(request).v[i + 1].t = "obj"
          /\ ~MustFail(LocationsOf(request).v[i + 1])

\* when every element of the list is an object the entries match the locations
ObjectLocationsMatch ==
    LocationsAnswered /\ (\A i \in 1..Len(LocationsOf(request).v) :
                              LocationsOf(request).v[i].t = "obj")
        => \A locations \in {LocationsOf(request).v} : EntriesMatch(locations)

\* a 200 response to a list with a failing location between two full ones
FailedBetweenScraped ==
    /\ LocationsAnswered
    /\ reply.status = 200
    /\ Len(reply.body.results) = 3
    /\ reply.body.results[1].success /\ ~reply.body.results[2].success
    /\ reply.body.results[3].success
    /\ reply.body.successful_scrapes = 2

----------------------------------------------------------------------------
(* launcher.py: main, start_server, check_server_health                    *)
(* A process is none (not started), running, crashed (it ended by itself)  *)
(* or terminated (terminate() was called on it).  A probe is none, ok      *)
(* (status 200), status (another status), refused or error.                *)

ProbeAnswers == {"ok", "status", "refused", "error"}

\* check_server_health: True for a 200 answer only
Healthy(answer) == answer = "ok"

\* main_process.terminate(); contact_process.terminate()
Terminated(process) == IF process = "none" THEN "none" ELSE "terminated"

LauncherUnchanged == UNCHANGED <<contextVars, dedupVars, endpointVars, sessionVars, scrollVars>>

LauncherInit ==
    /\ pc = "launcher_start"
    /\ main_process = "none"
    /\ contact_process = "none"
    /\ main_probe = "none"
    /\ contact_probe = "none"
    /\ reported = FALSE
    /\ main_healthy = "none"
    /\ contact_healthy = "none"
    /\ ContextIdle
    /\ DedupIdle /\ EndpointIdle /\ SessionIdle /\ ScrollIdle

\* start_server("main.py", ...): Popen
StartMain ==
    /\ pc = "launcher_start"
    /\ main_process' = "running"
    /\ pc' = "main_waiting"
    /\ UNCHANGED <<contact_process, main_probe, contact_probe, reported, main_healthy, contact_healthy>>
    /\ LauncherUnchanged

\* a required file is missing (lines 107-112), or Popen raises and
\* start_server returns None: main returns before a process exists
StartMainFails ==
    /\ pc = "launcher_start"
    /\ pc' = "launcher_exited"
    /\ UNCHANGED launcherVars
    /\ LauncherUnchanged

\* a server process ends by itself
ServerCrashes ==
    /\ pc \notin {"launcher_exited", "launcher_interrupted"}
    /\ \/ main_process = "running" /\ main_process' = "crashed" /\ UNCHANGED contact_process
       \/ contact_process = "running" /\ contact_process' = "crashed" /\ UNCHANGED main_process
    /\ UNCHANGED <<pc, main_probe, contact_probe, reported, main_healthy, contact_healthy>>
    /\ LauncherUnchanged

\* time.sleep(3), then the probe of the main server; on failure
\* process.terminate(), return None, and main returns
ProbeMain ==
    /\ pc = "main_waiting"
    /\ \E answer \in ProbeAnswers :
          /\ main_probe' = answer
          /\ IF Healthy(answer)
             THEN pc' = "main_started" /\ UNCHANGED main_process
             ELSE pc' = "launcher_exited" /\ main_process' = Terminated(main_process)
    /\ UNCHANGED <<contact_process, contact_probe, reported, main_healthy, contact_healthy>>
    /\ LauncherUnchanged

\* start_server("contact_server.py", ...): Popen
StartContact ==
    /\ pc = "main_started"
    /\ contact_process' = "running"
    /\ pc' = "contact_waiting"
    /\ UNCHANGED <<main_process, main_probe, contact_probe, reported, main_healthy, contact_healthy>>
    /\ LauncherUnchanged

\* Popen raises: start_server returns None, main terminates the main server
StartContactFails ==
    /\ pc = "main_started"
    /\ main_process' = Terminated(main_process)
    /\ pc' = "launcher_exited"
    /\ UNCHANGED <<contact_process, main_probe, contact_probe, reported, main_healthy, contact_healthy>>
    /\ LauncherUnchanged

\* the probe of the contact server; on failure process.terminate() in
\* start_server and main_process.terminate() in main
ProbeContact ==
    /\ pc = "contact_waiting"
    /\ \E answer \in ProbeAnswers :
          /\ contact_probe' = answer
          /\ IF Healthy(answer)
             THEN /\ pc' = "both_started"
                  /\ UNCHANGED <<main_process, contact_process>>
             ELSE /\ pc' = "launcher_exited"
                  /\ contact_process' = Terminated(contact_process)
                  /\ main_process' = Terminated(main_process)
    /\ UNCHANGED <<main_probe, reported, main_healthy, contact_healthy>>
    /\ LauncherUnchanged

\* lines 127-130: "Both servers started successfully!"; the try block begins
ReportStarted ==
    /\ pc = "both_started"
    /\ reported' = TRUE
    /\ pc' = "testing"
    /\ UNCHANGED <<main_process, contact_process, main_probe, contact_probe, main_healthy, contact_healthy>>
    /\ LauncherUnchanged

\* time.sleep(5); test_scraping(), which catches what its requests raise
TestScraping ==
    /\ pc = "testing"
    /\ pc' = "serving"
    /\ UNCHANGED launcherVars
    /\ LauncherUnchanged

\* one turn of "while True": both servers are probed; when one of them is
\* not healthy the loop is left for the finally block
PeriodicCheck ==
    /\ pc = "serving"
    /\ \E main_answer \in ProbeAnswers, contact_answer_ \in ProbeAnswers :
          /\ main_healthy' = main_answer
          /\ contact_healthy' = contact_answer_
          /\ pc' = IF Healthy(main_answer) /\ Healthy(contact_answer_)
                   THEN "serving" ELSE "stopping_main"
    /\ UNCHANGED <<main_process, contact_process, main_probe, contact_probe, reported>>
    /\ LauncherUnchanged

\* KeyboardInterrupt inside the try block: the handler prints and the finally
\* block follows
InterruptServing ==
    /\ pc \in {"testing", "serving"}
    /\ pc' = "stopping_main"
    /\ UNCHANGED launcherVars
    /\ LauncherUnchanged

\* finally: main_process.terminate()
StopMain ==
    /\ pc = "stopping_main"
    /\ main_process' = Terminated(main_process)
    /\ pc' = "stopping_contact"
    /\ UNCHANGED <<contact_process, main_probe, contact_probe, reported, main_healthy, contact_healthy>>
    /\ LauncherUnchanged

\* finally: contact_process.terminate()
StopContact ==
    /\ pc = "stopping_contact"
    /\ contact_process' = Terminated(contact_process)
    /\ pc' = "launcher_exited"
    /\ UNCHANGED <<main_process, main_probe, contact_probe, reported, main_healthy, contact_healthy>>
    /\ LauncherUnchanged

\* KeyboardInterrupt before the try block of line 132 or inside the finally
\* block: it is no Exception, so start_server does not catch it, and main has
\* no handler there
InterruptStarting ==
    /\ pc \in {"launcher_start", "main_waiting", "main_started", "contact_waiting",
               "both_started", "stopping_main", "stopping_contact"}
    /\ pc' = "launcher_interrupted"
    /\ UNCHANGED launcherVars
    /\ LauncherUnchanged

LauncherNext ==
    \/ StartMain
    \/ StartMainFails
    \/ ServerCrashes
    \/ ProbeMain
    \/ StartContact
    \/ StartContactFails
    \/ ProbeContact
    \/ ReportStarted
    \/ TestScraping
    \/ PeriodicCheck
    \/ InterruptServing
    \/ StopMain
    \/ StopContact
    \/ InterruptStarting

SpecLauncher == LauncherInit /\ [][LauncherNext]_vars

----------------------------------------------------------------------------
(* Claims about the launcher                                               *)

LauncherLeft == pc \in {"launcher_exited", "launcher_interrupted"}

\* every process that was started has been sent terminate
AllTerminated ==
    /\ main_process \in {"none", "terminated"}
    /\ contact_process \in {"none", "terminated"}

\* the contact server is started after the main server's probe returned 200,
\* and both are reported running after both probes returned 200
StartedInOrder ==
    /\ contact_process # "none" => main_probe = "ok"
    /\ reported => main_probe = "ok" /\ contact_probe = "ok"

\* C30 as stated: the contact server is started only after the main server
\* passed its probe, both are reported running only after both probes
\* returned 200, and on every exit path of the launcher (start failure,
\* failed periodic check, interrupt) every process it started has been sent
\* terminate.
C30_OrderedStartAndCleanExit ==
    /\ StartedInOrder
    /\ LauncherLeft => AllTerminated

\* the launcher was interrupted while it waited for the main server to start
C30_Witness ==
    /\ pc = "launcher_interrupted"
    /\ main_process # "none"
    /\ main_probe = "none"

\* the order of the start holds, and every exit other than an interrupt outside
\* the try block leaves no started process without terminate
OrderedAndCleanWhenHandled ==
    /\ StartedInOrder
    /\ pc = "launcher_exited" => AllTerminated

\* the launcher left after a failed periodic check with both terminated
LeftAfterFailedCheck ==
    /\ pc = "launcher_exited"
    /\ reported
    /\ ~Healthy(contact_healthy)
    /\ main_process = "terminated" /\ contact_process = "terminated"

====
